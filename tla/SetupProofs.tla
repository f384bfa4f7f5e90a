----------------------------- MODULE SetupProofs ----------------------------
(***************************************************************************)
(* Proofs about Setup, for any number of processes, names, services and    *)
(* ports, and either umask.                                                *)
(***************************************************************************)
EXTENDS Setup, TLAPS

-----------------------------------------------------------------------------
(* Types.  TypeOK says of a process what its job must name at each phase;   *)
(* it is inductive once every service that a file or a process knows is one *)
(* that Tor made, and the kind of a job fits the phase.                     *)

\* What phase at asks of a job.
Fits(at, j) ==
    /\ at \in Saving \cup Reading => j.name \in Names
    /\ at \in Saving => j.kind = "create"
    /\ at \in {"readKey", "asking", "binding", "serving"} \cup Saving
        => j.listen \in Ports /\ j.address \in Ids
    /\ at \in {"asking", "binding", "serving"} \cup Saving => j.key \in Ids
    /\ at \in Reading \cup {"asking"} => j.kind = "load"
    /\ at = "adding" => j.listen \in Ports /\ j.kind # "none" /\ ~j.reused
    /\ at = "adding" /\ j.kind # "load" => j.port \in Ports
    /\ at = "adding" /\ j.kind = "load" => j.key \in Ids /\ j.address \in Ids
    /\ at = "adding" /\ j.kind = "create" => j.name \in Names

IsMade(i) == i \in Ids => made[i] # None

Processes ==
    /\ phase \in [Procs -> Phases]
    /\ job \in [Procs -> Jobs]
    /\ \A p \in Procs :
        /\ Fits(phase[p], job[p])
        /\ IsMade(job[p].address)
        /\ IsMade(job[p].key)

Tor ==
    /\ control \subseteq Procs
    /\ tor \in [Ids -> Service \cup {None}]
    /\ made \in [Ids -> Ports \cup {None}]
    /\ asked \in [Ids -> SUBSET Ports]

Files ==
    /\ files \in [Names -> [Kinds -> File]]
    /\ \A n \in Names, k \in Kinds : IsMade(files[n][k].content)

Records ==
    /\ dirs \in [Names \cup {Home} -> Modes]
    /\ saved \in [Names -> Ids \cup {None}]
    /\ unsettled \subseteq Names
    /\ mixed \subseteq unsettled

TypeInv == Processes /\ Tor /\ Files /\ Records

LEMMA TypeInvTypes == TypeInv => TypeOK
  BY DEF TypeInv, Processes, Tor, Files, Records, Fits, TypeOK

LEMMA TypeInit == Init => TypeInv
  BY SetupAssumption
  DEF Init, TypeInv, Processes, Tor, Files, Records, Fits, IsMade, Phases, Busy,
      Reading, Saving, Writing, Kinds, Modes, File, Service, Jobs, Job, NoJob

\* A step that leaves the job of p, and Tor, as they are.
LEMMA Moves ==
    ASSUME TypeInv, NEW p \in Procs, NEW at \in Phases, Goto(p, at),
           Fits(at, job[p]), UNCHANGED <<job, made>>
    PROVE  Processes'
<1>1. phase' \in [Procs -> Phases] /\ job' = job
  BY DEF Goto, TypeInv, Processes
<1>2. ASSUME NEW q \in Procs
      PROVE  Fits(phase'[q], job[q])
  BY DEF Goto, TypeInv, Processes
<1>3. ASSUME NEW q \in Procs
      PROVE  IsMade(job[q].address)' /\ IsMade(job[q].key)'
  BY DEF TypeInv, Processes, IsMade
<1> QED
  BY <1>1, <1>2, <1>3 DEF TypeInv, Processes, Fits

\* A step that gives p another job.
LEMMA Turns ==
    ASSUME TypeInv, NEW p \in Procs, NEW at \in Phases, NEW j \in Jobs,
           Goto(p, at), Fits(at, j), IsMade(j.address), IsMade(j.key),
           job' = [job EXCEPT ![p] = j], UNCHANGED made
    PROVE  Processes'
<1>1. phase' \in [Procs -> Phases] /\ job' \in [Procs -> Jobs]
  BY DEF Goto, TypeInv, Processes
<1>2. ASSUME NEW q \in Procs
      PROVE  /\ phase'[q] = IF q = p THEN at ELSE phase[q]
             /\ job'[q] = IF q = p THEN j ELSE job[q]
  BY DEF Goto, TypeInv, Processes
<1>3. ASSUME NEW q \in Procs
      PROVE  Fits(phase'[q], job'[q])
  BY <1>2 DEF TypeInv, Processes
<1>4. ASSUME NEW q \in Procs
      PROVE  IsMade(job[q].address)' /\ IsMade(job[q].key)'
  BY <1>2 DEF TypeInv, Processes, IsMade
<1> QED
  BY <1>1, <1>3, <1>4 DEF Processes, Fits

\* A step that gives one file another mode or content.
LEMMA Puts ==
    ASSUME TypeInv, NEW n \in Names, NEW k \in Kinds, NEW f \in File,
           files' = [files EXCEPT ![n][k] = f], IsMade(f.content), UNCHANGED made
    PROVE  Files'
<1>1. files' \in [Names -> [Kinds -> File]]
  BY DEF TypeInv, Files
<1>2. ASSUME NEW m \in Names, NEW l \in Kinds
      PROVE  files'[m][l] = IF m = n /\ l = k THEN f ELSE files[m][l]
  BY DEF TypeInv, Files
<1>3. ASSUME NEW m \in Names, NEW l \in Kinds
      PROVE  IsMade(files[m][l].content)'
  BY <1>2 DEF TypeInv, Files, IsMade
<1> QED
  BY <1>1, <1>3 DEF Files

\* What the files hold, and what is recorded about them, is as Tor and the
\* processes leave it.
LEMMA DiskKept == TypeInv /\ UNCHANGED <<made, disk>> => Files' /\ Records'
  BY DEF TypeInv, Files, Records, IsMade, disk

LEMMA TorKept == TypeInv /\ UNCHANGED <<control, tor, made, asked>> => Tor'
  BY DEF TypeInv, Tor

LEMMA JobOf ==
    ASSUME TypeInv, NEW p \in Procs
    PROVE  /\ phase[p] \in Phases
           /\ job[p] \in Jobs
           /\ Fits(phase[p], job[p])
           /\ IsMade(job[p].address)
           /\ IsMade(job[p].key)
  BY DEF TypeInv, Processes

LEMMA ConnectType ==
    ASSUME TypeInv, NEW p \in Procs, Connect(p)
    PROVE  TypeInv'
<1>1. Processes'
  <2>1. Fits("ready", job[p]) /\ "ready" \in Phases
    BY DEF Fits, Phases, Saving, Reading, Writing
  <2> QED
    BY <2>1, Moves DEF Connect
<1>2. Tor'
  BY DEF Connect, TypeInv, Tor
<1> QED
  BY <1>1, <1>2, DiskKept DEF Connect, TypeInv

LEMMA CreateType ==
    ASSUME TypeInv, NEW p \in Procs, NEW kind \in {"transient", "create"},
           NEW name \in Names \cup {None}, NEW port \in Ports,
           NEW given \in Ports \cup {None}, kind = "create" => name \in Names,
           Create(p, kind, name, port, given)
    PROVE  TypeInv'
<1> DEFINE j == Job(kind, name, port, ListenAddress(given, port), FALSE)
<1>1. /\ j \in Jobs /\ "adding" \in Phases
      /\ Fits("adding", j)
      /\ IsMade(j.address) /\ IsMade(j.key)
  BY SetupAssumption
  DEF Job, Jobs, ListenAddress, Fits, IsMade, Phases, Busy, Saving, Reading,
      Writing
<1>2. Processes'
  BY <1>1, Turns DEF Create
<1> QED
  BY <1>2, DiskKept, TorKept DEF Create, TypeInv

LEMMA LoadType ==
    ASSUME TypeInv, NEW p \in Procs, NEW name \in Names,
           NEW given \in Ports \cup {None}, Load(p, name, given)
    PROVE  TypeInv'
<1> DEFINE j == Job("load", name, None, given, name \notin mixed)
<1>1. /\ j \in Jobs /\ "readAddress" \in Phases
      /\ Fits("readAddress", j)
      /\ IsMade(j.address) /\ IsMade(j.key)
  BY SetupAssumption
  DEF Job, Jobs, Fits, IsMade, Phases, Busy, Saving, Reading, Writing
<1>2. Processes'
  BY <1>1, Turns DEF Load
<1> QED
  BY <1>2, DiskKept, TorKept DEF Load, TypeInv

LEMMA AddNewType ==
    ASSUME TypeInv, NEW p \in Procs, AddNew(p)
    PROVE  TypeInv'
<1> DEFINE at == IF job[p].kind = "transient" THEN "binding" ELSE "makeHome"
<1>1. PICK i \in Ids :
        /\ made[i] = None
        /\ made' = [made EXCEPT ![i] = job[p].port]
        /\ tor' = [tor EXCEPT ![i] =
                    [listen |-> job[p].listen,
                     owner |-> IF job[p].kind = "transient" THEN p ELSE None]]
        /\ asked' = [asked EXCEPT ![i] = {job[p].listen}]
        /\ job' = [job EXCEPT ![p].address = i, ![p].key = i]
  BY DEF AddNew
<1>2. /\ job[p] \in Jobs
      /\ job[p].listen \in Ports /\ job[p].port \in Ports
      /\ job[p].kind \in {"transient", "create"}
      /\ job[p].kind = "create" => job[p].name \in Names
      /\ Goto(p, at)
  BY JobOf DEF AddNew, Fits, Jobs
<1>3. Tor'
  BY <1>1, <1>2 DEF AddNew, TypeInv, Tor, Service
<1>4. ASSUME NEW x \in Ids, made[x] # None \/ x = i
      PROVE  made'[x] # None
  BY <1>1, <1>2, <1>4, SetupAssumption DEF TypeInv, Tor
<1>5. Processes'
  <2> DEFINE j == [job[p] EXCEPT !.address = i, !.key = i]
  <2>1. /\ j \in Jobs
        /\ j.address = i /\ j.key = i /\ j.kind = job[p].kind
        /\ j.name = job[p].name /\ j.listen = job[p].listen
    BY <1>2 DEF Jobs
  <2>2. /\ job' \in [Procs -> Jobs]
        /\ \A q \in Procs : job'[q] = IF q = p THEN j ELSE job[q]
    BY <1>1, <2>1 DEF TypeInv, Processes
  <2>3. Fits(at, j) /\ at \in Phases
    BY <1>2, <2>1 DEF Fits, Phases, Busy, Saving, Reading, Writing
  <2>4. ASSUME NEW q \in Procs
        PROVE  Fits(phase'[q], job'[q])
    BY <1>2, <2>2, <2>3 DEF TypeInv, Processes, Goto
  <2>5. ASSUME NEW q \in Procs
        PROVE  IsMade(job[q].address)' /\ IsMade(job[q].key)'
    BY <1>4, <2>1, <2>2 DEF TypeInv, Processes, IsMade
  <2>6. phase' \in [Procs -> Phases]
    BY <1>2, <2>3 DEF TypeInv, Processes, Goto
  <2> QED
    BY <2>2, <2>4, <2>5, <2>6 DEF Processes, Fits
<1>6. Files'
  BY <1>4 DEF AddNew, TypeInv, Files, IsMade, disk
<1> QED
  BY <1>3, <1>5, <1>6 DEF AddNew, TypeInv, Records, disk

LEMMA CreateSecureDirsType ==
    ASSUME TypeInv, NEW p \in Procs, CreateSecureDirs(p)
    PROVE  TypeInv'
<1>1. ASSUME NEW dir \in Names \cup {Home}, NEW now \in Saving,
             NEW secure \in Saving, NEW next \in Saving,
             MakeDirectory(p, dir, now, secure, next)
      PROVE  TypeInv'
  <2> DEFINE at == IF dirs[dir] = "absent" THEN secure ELSE next
  <2>1. Fits(at, job[p]) /\ at \in Phases /\ Goto(p, at)
    BY <1>1, JobOf DEF MakeDirectory, Fits, Phases, Busy, Saving, Reading, Writing
  <2>2. Processes'
    BY <1>1, <2>1, Moves DEF MakeDirectory
  <2>3. Records'
    BY <1>1, SetupAssumption DEF MakeDirectory, TypeInv, Records, Modes
  <2> QED
    BY <1>1, <2>2, <2>3, TorKept
    DEF MakeDirectory, TypeInv, Files, IsMade
<1>2. ASSUME NEW dir \in Names \cup {Home}, NEW now \in Saving,
             NEW next \in Saving, SecureDirectory(p, dir, now, next)
      PROVE  TypeInv'
  <2>1. Fits(next, job[p]) /\ next \in Phases
    BY <1>2, JobOf DEF SecureDirectory, Fits, Phases, Busy, Saving, Reading, Writing
  <2>2. Processes'
    BY <1>2, <2>1, Moves DEF SecureDirectory
  <2>3. Records'
    BY <1>2 DEF SecureDirectory, TypeInv, Records, Modes
  <2> QED
    BY <1>2, <2>2, <2>3, TorKept
    DEF SecureDirectory, TypeInv, Files, IsMade
<1>3. phase[p] \in Saving => job[p].name \in Names
  BY JobOf DEF Fits
<1>4. {"makeHome", "secureHome", "makeDir", "secureDir", "openAddress"}
        \subseteq Saving
  BY DEF Saving
<1>5. CASE MakeDirectory(p, Home, "makeHome", "secureHome", "makeDir")
  BY <1>1, <1>4, <1>5
<1>6. CASE SecureDirectory(p, Home, "secureHome", "makeDir")
  BY <1>2, <1>4, <1>6
<1>7. CASE MakeDirectory(p, job[p].name, "makeDir", "secureDir", "openAddress")
  <2>1. job[p].name \in Names
    BY <1>3, <1>4, <1>7 DEF MakeDirectory
  <2> QED
    BY <1>1, <1>4, <1>7, <2>1
<1>8. CASE SecureDirectory(p, job[p].name, "secureDir", "openAddress")
  <2>1. job[p].name \in Names
    BY <1>3, <1>4, <1>8 DEF SecureDirectory
  <2> QED
    BY <1>2, <1>4, <1>8, <2>1
<1> QED
  BY <1>5, <1>6, <1>7, <1>8 DEF CreateSecureDirs

\* What emptying a file makes of it.
LEMMA EmptiedFile ==
    ASSUME NEW f \in File
    PROVE  /\ Emptied(f) \in File
           /\ Emptied(f).content = None
           /\ IsMade(Emptied(f).content)
  BY SetupAssumption DEF Emptied, File, Modes, IsMade

\* A job that only changes in being clean or not.
LEMMA Marked ==
    ASSUME NEW j \in Jobs, NEW b \in BOOLEAN,
           NEW k, k = [j EXCEPT !.clean = b]
    PROVE  /\ k \in Jobs /\ k.clean = b
           /\ k.kind = j.kind /\ k.name = j.name /\ k.port = j.port
           /\ k.listen = j.listen /\ k.address = j.address /\ k.key = j.key
           /\ k.reused = j.reused
  BY DEF Jobs

\* What opening the address file does to the processes.
LEMMA Disturbs ==
    ASSUME TypeInv, NEW p \in Procs, OpenAddress(p), NEW q \in Procs
    PROVE  /\ phase'[q] = IF q = p THEN "writeAddress" ELSE phase[q]
           /\ job'[q] \in Jobs
           /\ job'[q].kind = job[q].kind /\ job'[q].name = job[q].name
           /\ job'[q].port = job[q].port /\ job'[q].listen = job[q].listen
           /\ job'[q].address = job[q].address /\ job'[q].key = job[q].key
           /\ job'[q].reused = job[q].reused
           /\ q = p => job'[q].clean = (OthersAt(p, Writing) = {})
           /\ q \in OthersAt(p, Writing \cup Reading) => ~job'[q].clean
           /\ q # p /\ q \notin OthersAt(p, Writing \cup Reading)
                => job'[q] = job[q]
<1>1. phase'[q] = IF q = p THEN "writeAddress" ELSE phase[q]
  BY DEF OpenAddress, Goto, TypeInv, Processes
<1>2. job'[q] = IF q = p
                THEN [job[q] EXCEPT !.clean = OthersAt(p, Writing) = {}]
                ELSE IF q \in OthersAt(p, Writing \cup Reading)
                THEN [job[q] EXCEPT !.clean = FALSE]
                ELSE job[q]
  BY DEF OpenAddress
<1>3. job[q] \in Jobs
  BY DEF TypeInv, Processes
<1>4. CASE q = p
  <2> DEFINE alone == OthersAt(p, Writing) = {}
  <2>1. job'[q] = [job[q] EXCEPT !.clean = alone] /\ alone \in BOOLEAN
    BY <1>2, <1>4
  <2> HIDE DEF alone
  <2>2. /\ job'[q] \in Jobs /\ job'[q].clean = alone
        /\ job'[q].kind = job[q].kind /\ job'[q].name = job[q].name
        /\ job'[q].port = job[q].port /\ job'[q].listen = job[q].listen
        /\ job'[q].address = job[q].address /\ job'[q].key = job[q].key
        /\ job'[q].reused = job[q].reused
    BY <1>3, <2>1, Marked
  <2>3. q \notin OthersAt(p, Writing \cup Reading)
    BY <1>4 DEF OthersAt
  <2> QED
    BY <1>1, <1>4, <2>2, <2>3 DEF alone
<1>5. CASE q # p
  <2>1. CASE q \in OthersAt(p, Writing \cup Reading)
    <3>1. job'[q] = [job[q] EXCEPT !.clean = FALSE]
      BY <1>2, <1>5, <2>1
    <3>2. /\ job'[q] \in Jobs /\ ~job'[q].clean
          /\ job'[q].kind = job[q].kind /\ job'[q].name = job[q].name
          /\ job'[q].port = job[q].port /\ job'[q].listen = job[q].listen
          /\ job'[q].address = job[q].address /\ job'[q].key = job[q].key
          /\ job'[q].reused = job[q].reused
      BY <1>3, <3>1, Marked
    <3>3. /\ q = p => job'[q].clean = (OthersAt(p, Writing) = {})
          /\ q # p /\ q \notin OthersAt(p, Writing \cup Reading)
                => job'[q] = job[q]
      BY <1>5, <2>1, Zenon
    <3> QED
      BY <1>1, <3>2, <3>3, Zenon
  <2>2. CASE q \notin OthersAt(p, Writing \cup Reading)
    <3>1. job'[q] = job[q]
      BY <1>2, <1>5, <2>2
    <3> QED
      BY <1>1, <1>3, <1>5, <2>2, <3>1, Zenon
  <2> QED
    BY <2>1, <2>2
<1> QED
  BY <1>4, <1>5

LEMMA OpenAddressType ==
    ASSUME TypeInv, NEW p \in Procs, OpenAddress(p)
    PROVE  TypeInv'
<1>1. phase' \in [Procs -> Phases]
  BY DEF OpenAddress, Goto, TypeInv, Processes, Phases, Busy, Saving, Writing
<1>2. job' \in [Procs -> Jobs]
  <2>1. job' = [q \in Procs |-> job'[q]]
    BY DEF OpenAddress
  <2>2. \A q \in Procs : job'[q] \in Jobs
    BY Disturbs
  <2> QED
    BY <2>1, <2>2
<1>3. ASSUME NEW q \in Procs
      PROVE  Fits(phase'[q], job'[q])
  <2>1. Fits(phase[q], job[q]) /\ phase[p] = "openAddress"
    BY JobOf DEF OpenAddress
  <2>2. Fits(phase'[q], job[q])
    BY <2>1, Disturbs DEF Fits, Saving, Reading, Writing
  <2> QED
    BY <2>2, Disturbs DEF Fits
<1>4. ASSUME NEW q \in Procs
      PROVE  IsMade(job[q].address)' /\ IsMade(job[q].key)'
  BY Disturbs, JobOf DEF IsMade, OpenAddress
<1>5. Processes'
  BY <1>1, <1>2, <1>3, <1>4 DEF Processes, Fits
<1>6. job[p].name \in Names
  BY JobOf DEF OpenAddress, Fits, Saving
<1>7. Files'
  <2>1. files[job[p].name].address \in File
    BY <1>6 DEF TypeInv, Files, Kinds
  <2>2. files' = [files EXCEPT ![job[p].name]["address"] =
                    Emptied(files[job[p].name].address)]
    BY DEF OpenAddress
  <2> QED
    BY <1>6, <2>1, <2>2, EmptiedFile, Puts DEF OpenAddress, Kinds
<1>8. Records'
  BY <1>6 DEF OpenAddress, TypeInv, Records
<1> QED
  BY <1>5, <1>7, <1>8, TorKept DEF OpenAddress, TypeInv

\* A step of a save that only changes one of the files.
LEMMA SavingType ==
    ASSUME TypeInv, NEW p \in Procs, phase[p] \in Writing,
           NEW at \in Writing \cup {"binding"}, Goto(p, at),
           NEW k \in Kinds, NEW f \in File, IsMade(f.content),
           files' = [files EXCEPT ![job[p].name][k] = f],
           UNCHANGED <<job, control, tor, made, asked, dirs>>,
           saved' \in [Names -> Ids \cup {None}], unsettled' \subseteq Names,
           mixed' \subseteq unsettled'
    PROVE  TypeInv'
<1>1. Fits(at, job[p]) /\ at \in Phases /\ job[p].name \in Names
  BY JobOf DEF Fits, Phases, Busy, Saving, Writing, Reading
<1>2. Processes'
  BY <1>1, Moves
<1>3. Files'
  BY <1>1, Puts
<1>4. Records'
  BY DEF TypeInv, Records
<1> QED
  BY <1>2, <1>3, <1>4, TorKept DEF TypeInv

\* The file of p, and what its save puts there.
LEMMA FileOf ==
    ASSUME TypeInv, NEW p \in Procs, phase[p] \in Writing, NEW k \in Kinds
    PROVE  /\ job[p].name \in Names
           /\ files[job[p].name][k] \in File
           /\ IsMade(files[job[p].name][k].content)
           /\ job[p][k] \in Ids /\ IsMade(job[p][k])
<1>1. job[p].name \in Names /\ job[p].address \in Ids /\ job[p].key \in Ids
  BY JobOf DEF Fits, Saving
<1> QED
  BY <1>1, JobOf DEF TypeInv, Files, Kinds

LEMMA WriteContentType ==
    ASSUME TypeInv, NEW p \in Procs, NEW k \in Kinds,
           NEW now \in Writing, NEW next \in Writing, WriteContent(p, k, now, next)
    PROVE  TypeInv'
<1> DEFINE f == [files[job[p].name][k] EXCEPT !.content = job[p][k]]
<1>1. /\ phase[p] \in Writing /\ Goto(p, next)
      /\ UNCHANGED <<job, control, tor, made, asked, dirs, saved, unsettled,
                     mixed>>
  BY DEF WriteContent
<1>2. f \in File /\ f.content = job[p][k] /\ IsMade(f.content)
  BY <1>1, FileOf DEF File
<1>3. files' = [files EXCEPT ![job[p].name][k] = f]
  BY <1>1, FileOf DEF WriteContent
<1>4. /\ saved' \in [Names -> Ids \cup {None}] /\ unsettled' \subseteq Names
      /\ mixed' \subseteq unsettled'
  BY <1>1 DEF TypeInv, Records
<1> QED
  BY <1>1, <1>2, <1>3, <1>4, SavingType

LEMMA SecureAddressType ==
    ASSUME TypeInv, NEW p \in Procs, SecureAddress(p)
    PROVE  TypeInv'
<1> DEFINE f == [files[job[p].name]["address"] EXCEPT !.mode = "secure"]
<1>1. /\ phase[p] \in Writing /\ Goto(p, "openKey") /\ "openKey" \in Writing
      /\ "address" \in Kinds
      /\ UNCHANGED <<job, control, tor, made, asked, dirs, saved, unsettled,
                     mixed>>
  BY DEF SecureAddress, Writing, Kinds
<1>2. /\ f \in File /\ f.content = files[job[p].name]["address"].content
      /\ IsMade(f.content)
  BY <1>1, FileOf DEF File, Modes
<1>3. files' = [files EXCEPT ![job[p].name]["address"] = f]
  BY <1>1, FileOf DEF SecureAddress
<1>4. /\ saved' \in [Names -> Ids \cup {None}] /\ unsettled' \subseteq Names
      /\ mixed' \subseteq unsettled'
  BY <1>1 DEF TypeInv, Records
<1> QED
  BY <1>1, <1>2, <1>3, <1>4, SavingType

LEMMA OpenKeyType ==
    ASSUME TypeInv, NEW p \in Procs, OpenKey(p)
    PROVE  TypeInv'
<1> DEFINE f == Emptied(files[job[p].name]["key"])
<1>1. /\ phase[p] \in Writing /\ Goto(p, "writeKey") /\ "writeKey" \in Writing
      /\ "key" \in Kinds
      /\ UNCHANGED <<job, control, tor, made, asked, dirs, saved, unsettled,
                     mixed>>
  BY DEF OpenKey, Writing, Kinds
<1>2. f \in File /\ IsMade(f.content)
  BY <1>1, FileOf, EmptiedFile
<1>3. files' = [files EXCEPT ![job[p].name]["key"] = f]
  BY <1>1, FileOf DEF OpenKey
<1>4. /\ saved' \in [Names -> Ids \cup {None}] /\ unsettled' \subseteq Names
      /\ mixed' \subseteq unsettled'
  BY <1>1 DEF TypeInv, Records
<1> QED
  BY <1>1, <1>2, <1>3, <1>4, SavingType

LEMMA SecureKeyType ==
    ASSUME TypeInv, NEW p \in Procs, SecureKey(p)
    PROVE  TypeInv'
<1> DEFINE f == [files[job[p].name]["key"] EXCEPT !.mode = "secure"]
<1>1. /\ phase[p] \in Writing /\ Goto(p, "binding")
      /\ "key" \in Kinds
      /\ UNCHANGED <<job, control, tor, made, asked, dirs>>
  BY DEF SecureKey, Writing, Kinds
<1>2. /\ f \in File /\ f.content = files[job[p].name]["key"].content
      /\ IsMade(f.content)
  BY <1>1, FileOf DEF File, Modes
<1>3. files' = [files EXCEPT ![job[p].name]["key"] = f]
  BY <1>1, FileOf DEF SecureKey
<1>4. /\ saved' \in [Names -> Ids \cup {None}] /\ unsettled' \subseteq Names
      /\ mixed' \subseteq unsettled'
  <2>1. job[p].key \in Ids /\ job[p].name \in Names
    BY <1>1, JobOf DEF Fits, Saving
  <2> QED
    BY <2>1 DEF SecureKey, TypeInv, Records
<1> QED
  BY <1>1, <1>2, <1>3, <1>4, SavingType

LEMMA SaveType ==
    ASSUME TypeInv, NEW p \in Procs, Save(p)
    PROVE  TypeInv'
<1>1. CASE WriteContent(p, "address", "writeAddress", "secureAddress")
  BY <1>1, WriteContentType DEF Kinds, Writing
<1>2. CASE WriteContent(p, "key", "writeKey", "secureKey")
  BY <1>2, WriteContentType DEF Kinds, Writing
<1> QED
  BY <1>1, <1>2, CreateSecureDirsType, OpenAddressType, SecureAddressType,
     OpenKeyType, SecureKeyType
  DEF Save

LEMMA ReadAddressType ==
    ASSUME TypeInv, NEW p \in Procs, ReadAddress(p)
    PROVE  TypeInv'
<1> DEFINE address == files[job[p].name].address.content
           j == [job[p] EXCEPT !.address = address,
                               !.listen = ListenAddress(@, made[address])]
<1>1. job[p] \in Jobs /\ job[p].name \in Names /\ job[p].kind = "load"
  BY JobOf DEF ReadAddress, Fits, Reading
<1>2. address \in Ids /\ IsMade(address) /\ made[address] \in Ports
  BY <1>1 DEF ReadAddress, Usable, TypeInv, Files, Tor, File, Kinds, IsMade
<1>3. ListenAddress(job[p].listen, made[address]) \in Ports
  BY <1>1, <1>2 DEF ListenAddress, Jobs
<1>4. /\ j \in Jobs
      /\ j.kind = job[p].kind /\ j.name = job[p].name /\ j.key = job[p].key
      /\ j.address = address
      /\ j.listen = ListenAddress(job[p].listen, made[address])
  BY <1>1, <1>2, <1>3 DEF Jobs
<1>5. Fits("readKey", j) /\ "readKey" \in Phases
  BY <1>1, <1>2, <1>3, <1>4
  DEF Fits, Phases, Busy, Reading, Saving, Writing
<1>6. job' = [job EXCEPT ![p] = j]
  <2>1. job \in [Procs -> Jobs]
    BY DEF TypeInv, Processes
  <2> QED
    BY <2>1 DEF ReadAddress
<1>7. Processes'
  <2>1. IsMade(j.address) /\ IsMade(j.key)
    BY <1>2, <1>4, JobOf
  <2> QED
    BY <1>4, <1>5, <1>6, <2>1, Turns DEF ReadAddress
<1> QED
  BY <1>7, DiskKept, TorKept DEF ReadAddress, TypeInv

LEMMA ReadKeyType ==
    ASSUME TypeInv, NEW p \in Procs, ReadKey(p)
    PROVE  TypeInv'
<1> DEFINE key == files[job[p].name].key.content
           j == [job[p] EXCEPT !.key = key]
<1>1. /\ job[p] \in Jobs /\ job[p].name \in Names /\ job[p].kind = "load"
      /\ job[p].listen \in Ports /\ job[p].address \in Ids
  BY JobOf DEF ReadKey, Fits, Reading
<1>2. key \in Ids /\ IsMade(key)
  BY <1>1 DEF ReadKey, Usable, TypeInv, Files, File, Kinds
<1>3. /\ j \in Jobs
      /\ j.kind = job[p].kind /\ j.name = job[p].name
      /\ j.address = job[p].address
      /\ j.listen = job[p].listen /\ j.key = key
  BY <1>1, <1>2 DEF Jobs
<1>4. Fits("asking", j) /\ "asking" \in Phases
  BY <1>1, <1>2, <1>3 DEF Fits, Phases, Busy, Reading, Saving, Writing
<1>5. job' = [job EXCEPT ![p] = j]
  BY <1>1 DEF ReadKey, TypeInv, Processes
<1>6. Processes'
  <2>1. IsMade(j.address) /\ IsMade(j.key)
    BY <1>2, <1>3, JobOf
  <2> QED
    BY <1>3, <1>4, <1>5, <2>1, Turns DEF ReadKey
<1> QED
  BY <1>6, DiskKept, TorKept DEF ReadKey, TypeInv

LEMMA AskTorType ==
    ASSUME TypeInv, NEW p \in Procs, AskTor(p)
    PROVE  TypeInv'
<1> DEFINE there == tor[job[p].address] # None /\ tor[job[p].address].owner = None
           at == IF there THEN "binding" ELSE "adding"
           j == [job[p] EXCEPT !.reused = there]
<1>1. /\ job[p] \in Jobs /\ job[p].kind = "load" /\ job[p].listen \in Ports
      /\ job[p].address \in Ids /\ job[p].key \in Ids
  BY JobOf DEF AskTor, Fits
<1>2. there \in BOOLEAN
  OBVIOUS
<1> HIDE DEF there
<1>3. /\ j \in Jobs
      /\ j.kind = job[p].kind /\ j.name = job[p].name
      /\ j.address = job[p].address
      /\ j.listen = job[p].listen /\ j.key = job[p].key
  BY <1>1, <1>2 DEF Jobs
<1>4. Fits(at, j) /\ at \in Phases
  BY <1>1, <1>3 DEF Fits, Phases, Busy, Reading, Saving, Writing
<1>5. Goto(p, at) /\ job' = [job EXCEPT ![p] = j]
  BY <1>1 DEF AskTor, TypeInv, Processes, there
<1>6. Processes'
  <2>1. IsMade(j.address) /\ IsMade(j.key)
    BY <1>3, JobOf
  <2> QED
    BY <1>3, <1>4, <1>5, <2>1, Turns DEF AskTor
<1> QED
  BY <1>6, DiskKept, TorKept DEF AskTor, TypeInv

LEMMA AddSavedType ==
    ASSUME TypeInv, NEW p \in Procs, AddSaved(p)
    PROVE  TypeInv'
<1>1. /\ job[p].listen \in Ports /\ job[p].key \in Ids /\ job[p].address \in Ids
      /\ Fits("binding", job[p]) /\ "binding" \in Phases
  BY JobOf DEF AddSaved, Fits, Phases, Busy, Reading, Saving, Writing
<1>2. Processes'
  BY <1>1, Moves DEF AddSaved
<1>3. Tor'
  BY <1>1 DEF AddSaved, TypeInv, Tor, Service
<1> QED
  BY <1>2, <1>3, DiskKept DEF AddSaved, TypeInv

LEMMA BindType ==
    ASSUME TypeInv, NEW p \in Procs, Bind(p)
    PROVE  TypeInv'
<1>1. Fits("serving", job[p]) /\ "serving" \in Phases
  BY JobOf DEF Bind, Fits, Phases, Reading, Saving, Writing
<1>2. Processes'
  BY <1>1, Moves DEF Bind
<1> QED
  BY <1>2, DiskKept, TorKept DEF Bind, TypeInv

\* A process without a job.
LEMMA Idle ==
    ASSUME NEW at \in {"off", "ready"}
    PROVE  /\ at \in Phases /\ NoJob \in Jobs /\ Fits(at, NoJob)
           /\ IsMade(NoJob.address) /\ IsMade(NoJob.key)
  BY SetupAssumption
  DEF NoJob, Job, Jobs, Fits, IsMade, Phases, Reading, Saving, Writing

LEMMA FailType ==
    ASSUME TypeInv, NEW p \in Procs, Fail(p)
    PROVE  TypeInv'
<1>1. Processes'
  BY Idle, Turns DEF Fail
<1> QED
  BY <1>1, DiskKept, TorKept DEF Fail, TypeInv

LEMMA EndType ==
    ASSUME TypeInv, NEW p \in Procs, End(p)
    PROVE  TypeInv'
<1>1. Processes'
  BY Idle, Turns DEF End
<1>2. Tor'
  BY DEF End, TypeInv, Tor
<1> QED
  BY <1>1, <1>2, DiskKept DEF End, TypeInv

LEMMA TypeStep == TypeInv /\ [Next]_vars => TypeInv'
<1> SUFFICES ASSUME TypeInv, [Next]_vars
             PROVE  TypeInv'
  OBVIOUS
<1>1. CASE TorRestarts
  <2>1. Tor'
    BY <1>1 DEF TorRestarts, TypeInv, Tor
  <2>2. Processes'
    BY <1>1 DEF TorRestarts, TypeInv, Processes, IsMade, Fits
  <2> QED
    BY <1>1, <2>1, <2>2, DiskKept DEF TorRestarts, TypeInv
<1>2. ASSUME NEW p \in Procs, Start(p)
      PROVE  TypeInv'
  BY <1>2, ConnectType, CreateType, LoadType DEF Start
<1>3. ASSUME NEW p \in Procs, Step(p)
      PROVE  TypeInv'
  BY <1>3, AddNewType, SaveType, ReadAddressType, ReadKeyType, AskTorType,
     AddSavedType, BindType
  DEF Step
<1>4. ASSUME NEW p \in Procs, Fail(p) \/ End(p)
      PROVE  TypeInv'
  BY <1>4, FailType, EndType
<1>5. CASE UNCHANGED vars
  BY <1>5
  DEF vars, disk, TypeInv, Processes, Tor, Files, Records, IsMade, Fits
<1> QED
  BY <1>1, <1>2, <1>3, <1>4, <1>5 DEF Next

\* A process that has got to a phase has what the phase needs: a name whose
\* directory it makes or reads, an id and a key it serves, a listen address.
THEOREM SetupTypeCorrect == Spec => []TypeOK
<1> QED
  BY TypeInit, TypeStep, TypeInvTypes, PTL DEF Spec

-----------------------------------------------------------------------------
(* What is on disk.  A save is clean as long as nobody else saves under its *)
(* name: then nobody touches its files, and they hold what it has written   *)
(* so far.  A load is clean if the name was not mixed when it began and no  *)
(* save under the name began since.  Unless a name is mixed, there is no    *)
(* key beside an address other than its own: a save that was cut short left *)
(* no key, or it left both.                                                 *)

Alone(p) ==
    \A q \in Procs \ {p} : phase[q] \in Writing => job[q].name # job[p].name

\* What a clean save has written when it gets to phase at.
Wrote(at, j, file) ==
    /\ at \in {"secureAddress", "openKey", "writeKey", "secureKey"}
        => file["address"].content = j.address
    /\ at \in {"openKey", "writeKey", "secureKey"}
        => file["address"].mode = "secure"
    /\ at = "secureKey" => file["key"].content = j.key

\* What a save that is not mixed has not written yet at phase at.
Blank(at, file) ==
    /\ at = "writeAddress" => file["address"].content = None
    /\ at # "secureKey" => file["key"].content = None

SaveOf(p) ==
    phase[p] \in Writing =>
        /\ job[p].name \in unsettled
        /\ job[p].clean => Alone(p) /\ Wrote(phase[p], job[p], files[job[p].name])
        /\ job[p].name \notin mixed
            => job[p].clean /\ Blank(phase[p], files[job[p].name])

ReadOf(p) ==
    phase[p] \in Reading /\ job[p].clean =>
        /\ job[p].name \notin mixed
        /\ phase[p] = "readKey"
            => job[p].address = files[job[p].name]["address"].content

OwnOf(p) ==
    \/ phase[p] \in Saving
    \/ phase[p] \in {"asking", "binding", "serving"} /\ job[p].clean
    \/ phase[p] = "adding" /\ job[p].kind = "load" /\ job[p].clean
    => job[p].address = job[p].key

Paired ==
    \A n \in Names \ mixed :
        files[n]["key"].content # None
            => files[n]["address"].content = files[n]["key"].content

Store ==
    /\ StoreKeepsSaved
    /\ Paired
    /\ \A p \in Procs : SaveOf(p) /\ ReadOf(p) /\ OwnOf(p)

StoreInv == TypeInv /\ Store

LEMMA StoreInit == Init => Store
  BY SetupAssumption
  DEF Init, Store, StoreKeepsSaved, Paired, SaveOf, ReadOf, OwnOf, NoJob, Job, Writing,
      Reading, Saving, Kinds

\* A step of p that leaves the files alone.
LEMMA FilesAlone ==
    ASSUME StoreInv, NEW p \in Procs,
           \A q \in Procs \ {p} : phase'[q] = phase[q] /\ job'[q] = job[q],
           phase'[p] \notin Writing, ReadOf(p)', OwnOf(p)',
           UNCHANGED <<files, saved, unsettled, mixed>>
    PROVE  Store'
<1>1. StoreKeepsSaved' /\ Paired'
  BY DEF StoreInv, Store, StoreKeepsSaved, Paired
<1>2. ASSUME NEW q \in Procs \ {p}
      PROVE  SaveOf(q)' /\ ReadOf(q)' /\ OwnOf(q)'
  <2>1. phase'[q] = phase[q] /\ job'[q] = job[q]
    OBVIOUS
  <2>2. SaveOf(q) /\ ReadOf(q) /\ OwnOf(q)
    BY DEF StoreInv, Store
  <2>3. Alone(q) => Alone(q)'
    BY DEF Alone
  <2> QED
    BY <2>1, <2>2, <2>3 DEF SaveOf, ReadOf, OwnOf
<1>3. SaveOf(p)'
  BY DEF SaveOf
<1> QED
  BY <1>1, <1>2, <1>3 DEF Store

\* A step of p only moves p.
LEMMA OthersStay ==
    ASSUME TypeInv, NEW p \in Procs, NEW at, Goto(p, at),
           NEW j, job' = [job EXCEPT ![p] = j]
    PROVE  /\ \A q \in Procs \ {p} : phase'[q] = phase[q] /\ job'[q] = job[q]
           /\ phase'[p] = at /\ job'[p] = j
  BY DEF Goto, TypeInv, Processes

LEMMA OthersStayToo ==
    ASSUME TypeInv, NEW p \in Procs, NEW at, Goto(p, at), UNCHANGED job
    PROVE  /\ \A q \in Procs \ {p} : phase'[q] = phase[q] /\ job'[q] = job[q]
           /\ phase'[p] = at /\ job'[p] = job[p]
  BY DEF Goto, TypeInv, Processes

LEMMA StartStore ==
    ASSUME StoreInv, NEW p \in Procs, Start(p)
    PROVE  Store'
<1>1. CASE Connect(p)
  <2>1. ReadOf(p)' /\ OwnOf(p)' /\ phase'[p] \notin Writing
    BY <1>1, OthersStayToo
    DEF StoreInv, Connect, ReadOf, OwnOf, Reading, Saving, Writing
  <2> QED
    BY <1>1, <2>1, OthersStayToo, FilesAlone DEF StoreInv, Connect, disk
<1>2. ASSUME NEW kind \in {"transient", "create"}, NEW name, NEW port, NEW given,
             Create(p, kind, name, port, given)
      PROVE  Store'
  <2> DEFINE j == Job(kind, name, port, ListenAddress(given, port), FALSE)
  <2>0. Goto(p, "adding") /\ job' = [job EXCEPT ![p] = j] /\ j.kind = kind
    BY <1>2 DEF Create, Job
  <2> HIDE DEF j
  <2>1. /\ phase'[p] = "adding" /\ job'[p].kind # "load"
        /\ \A q \in Procs \ {p} : phase'[q] = phase[q] /\ job'[q] = job[q]
    BY <2>0, OthersStay DEF StoreInv
  <2>2. ReadOf(p)' /\ OwnOf(p)' /\ phase'[p] \notin Writing
    BY <2>1 DEF ReadOf, OwnOf, Reading, Saving, Writing
  <2> QED
    BY <1>2, <2>1, <2>2, FilesAlone DEF Create, disk
<1>3. ASSUME NEW name, NEW given, Load(p, name, given)
      PROVE  Store'
  <2> DEFINE j == Job("load", name, None, given, name \notin mixed)
  <2>0. /\ Goto(p, "readAddress") /\ job' = [job EXCEPT ![p] = j]
        /\ j.name = name /\ (j.clean => name \notin mixed)
    BY <1>3 DEF Load, Job
  <2> HIDE DEF j
  <2>1. /\ phase'[p] = "readAddress" /\ job'[p] = j
        /\ \A q \in Procs \ {p} : phase'[q] = phase[q] /\ job'[q] = job[q]
    BY <2>0, OthersStay DEF StoreInv
  <2>2. ReadOf(p)' /\ OwnOf(p)' /\ phase'[p] \notin Writing
    BY <1>3, <2>0, <2>1 DEF Load, disk, ReadOf, OwnOf, Saving, Writing
  <2> QED
    BY <1>3, <2>1, <2>2, FilesAlone DEF Load, disk
<1> QED
  BY <1>1, <1>2, <1>3 DEF Start

LEMMA AddNewStore ==
    ASSUME StoreInv, NEW p \in Procs, AddNew(p)
    PROVE  Store'
<1>1. PICK i \in Ids : job' = [job EXCEPT ![p].address = i, ![p].key = i]
  BY DEF AddNew
<1>2. job[p] \in Jobs
  BY JobOf DEF StoreInv
<1>3. /\ \A q \in Procs \ {p} : phase'[q] = phase[q] /\ job'[q] = job[q]
      /\ phase'[p] \in {"binding", "makeHome"}
      /\ job'[p].address = job'[p].key
  BY <1>1, <1>2 DEF AddNew, StoreInv, TypeInv, Processes, Goto, Jobs
<1>4. ReadOf(p)' /\ OwnOf(p)' /\ phase'[p] \notin Writing
  BY <1>3 DEF ReadOf, OwnOf, Reading, Writing
<1> QED
  BY <1>3, <1>4, FilesAlone DEF AddNew, disk

LEMMA CreateSecureDirsStore ==
    ASSUME StoreInv, NEW p \in Procs, CreateSecureDirs(p)
    PROVE  Store'
<1> DEFINE Making == {"makeHome", "secureHome", "makeDir", "secureDir", "openAddress"}
<1>1. PICK at \in Making : Goto(p, at)
  BY DEF CreateSecureDirs, MakeDirectory, SecureDirectory
<1>2. phase[p] \in Saving /\ UNCHANGED <<job, files, saved, unsettled, mixed>>
  BY DEF CreateSecureDirs, MakeDirectory, SecureDirectory, Saving
<1>3. /\ \A q \in Procs \ {p} : phase'[q] = phase[q] /\ job'[q] = job[q]
      /\ phase'[p] \in Making /\ job'[p] = job[p]
  BY <1>1, <1>2, OthersStayToo DEF StoreInv
<1>4. ReadOf(p)' /\ phase'[p] \notin Writing
  BY <1>3 DEF ReadOf, Reading, Writing
<1>5. OwnOf(p)'
  BY <1>2, <1>3 DEF StoreInv, Store, OwnOf
<1> QED
  BY <1>2, <1>3, <1>4, <1>5, FilesAlone

\* One file changes.
LEMMA OneFile ==
    ASSUME TypeInv, NEW n \in Names, NEW f \in File
    PROVE  /\ files' = [files EXCEPT ![n]["address"] = f] =>
                /\ files'[n]["address"] = f
                /\ files'[n]["key"] = files[n]["key"]
                /\ \A m \in Names \ {n} : files'[m] = files[m]
           /\ files' = [files EXCEPT ![n]["key"] = f] =>
                /\ files'[n]["key"] = f
                /\ files'[n]["address"] = files[n]["address"]
                /\ \A m \in Names \ {n} : files'[m] = files[m]
  BY DEF TypeInv, Files, Kinds

LEMMA OpenAddressStore ==
    ASSUME StoreInv, NEW p \in Procs, OpenAddress(p)
    PROVE  Store'
<1> USE DEF StoreInv
<1> DEFINE n == job[p].name
           f == Emptied(files[n]["address"])
<1>1. /\ n \in Names /\ phase[p] = "openAddress"
      /\ unsettled' = unsettled \cup {n} /\ saved' = saved
      /\ mixed \subseteq mixed' /\ mixed' \subseteq mixed \cup {n}
  BY JobOf DEF OpenAddress, Fits, Saving
<1>2. n \notin mixed' => /\ files[n]["key"].content = None
                        /\ OthersAt(p, Writing) = {}
  BY <1>1 DEF OpenAddress, Mixing
<1>3. f \in File /\ f.content = None
  BY <1>1, EmptiedFile DEF TypeInv, Files, Kinds
<1>4. files' = [files EXCEPT ![n]["address"] = f]
  BY DEF OpenAddress
<1> HIDE DEF f
<1>5. /\ files'[n]["address"] = f
      /\ files'[n]["key"] = files[n]["key"]
      /\ \A m \in Names \ {n} : files'[m] = files[m]
  BY <1>1, <1>3, <1>4, OneFile
<1>6. StoreKeepsSaved'
  BY <1>1, <1>5 DEF Store, StoreKeepsSaved
<1>7. Paired'
  BY <1>1, <1>2, <1>5 DEF Store, Paired
<1>8. ASSUME NEW q \in Procs
      PROVE  /\ phase'[q] = IF q = p THEN "writeAddress" ELSE phase[q]
             /\ job'[q].kind = job[q].kind /\ job'[q].name = job[q].name
             /\ job'[q].address = job[q].address /\ job'[q].key = job[q].key
             /\ q = p => (job'[q].clean <=> Alone(p))
             /\ q = p /\ n \notin mixed' => job'[q].clean
             /\ q # p /\ phase[q] \in Writing \cup Reading
                    /\ job[q].name = n => ~job'[q].clean
             /\ q # p /\ phase[q] \in Writing /\ job[q].name = n => n \in mixed'
             /\ q # p /\ job[q].name # n => job'[q] = job[q]
             /\ job'[q].clean => job[q].clean \/ q = p
  <2>1. OthersAt(p, Writing) = {} <=> Alone(p)
    BY DEF OthersAt, Alone
  <2>2. q # p /\ phase[q] \in Writing \cup Reading /\ job[q].name = n
            => q \in OthersAt(p, Writing \cup Reading)
    BY DEF OthersAt
  <2>3. q # p /\ phase[q] \in Writing /\ job[q].name = n
            => OthersAt(p, Writing) # {}
    BY DEF OthersAt
  <2>4. job[q].name # n => q \notin OthersAt(p, Writing \cup Reading)
    BY DEF OthersAt
  <2> HIDE DEF n
  <2>5. /\ phase'[q] = IF q = p THEN "writeAddress" ELSE phase[q]
        /\ job'[q].kind = job[q].kind /\ job'[q].name = job[q].name
        /\ job'[q].address = job[q].address /\ job'[q].key = job[q].key
        /\ q = p => job'[q].clean = (OthersAt(p, Writing) = {})
        /\ q \in OthersAt(p, Writing \cup Reading) => ~job'[q].clean
        /\ q # p /\ q \notin OthersAt(p, Writing \cup Reading)
                => job'[q] = job[q]
    BY Disturbs
  <2> QED
    BY <1>2, <2>1, <2>2, <2>3, <2>4, <2>5, Zenon
<1>9. ASSUME NEW q \in Procs
      PROVE  OwnOf(q)'
  BY <1>1, <1>8 DEF Store, OwnOf, Saving
<1>10. ASSUME NEW q \in Procs
       PROVE  ReadOf(q)'
  <2> SUFFICES ASSUME phase[q] \in Reading, q # p, job'[q].clean
               PROVE  ReadOf(q)'
    BY <1>8 DEF ReadOf, Reading
  <2>1. job[q].name # n /\ job'[q] = job[q] /\ phase'[q] = phase[q]
    BY <1>8
  <2>2. job[q].name \in Names
    BY JobOf DEF Fits
  <2> QED
    BY <1>1, <1>5, <2>1, <2>2 DEF Store, ReadOf
<1>11. SaveOf(p)'
  <2>1. Alone(p) => Alone(p)'
    BY <1>8 DEF Alone
  <2>2. n \notin mixed' => Blank("writeAddress", files'[n])
    BY <1>2, <1>3, <1>5 DEF Blank
  <2> QED
    BY <1>1, <1>8, <2>1, <2>2 DEF SaveOf, Wrote
<1>12. ASSUME NEW q \in Procs \ {p}, phase[q] \in Writing
       PROVE  SaveOf(q)'
  <2>1. job[q].name \in Names /\ SaveOf(q)
    BY <1>12, JobOf DEF Store, Fits, Saving
  <2>2. CASE job[q].name = n
    <3>1. ~job'[q].clean /\ job'[q].name \in unsettled' /\ job'[q].name \in mixed'
      BY <1>1, <1>8, <1>12, <2>2
    <3> QED
      BY <3>1 DEF SaveOf
  <2>3. CASE job[q].name # n
    <3>1. /\ job'[q] = job[q] /\ phase'[q] = phase[q]
          /\ files'[job[q].name] = files[job[q].name]
          /\ job[q].name \in mixed' <=> job[q].name \in mixed
      BY <1>1, <1>5, <1>8, <1>12, <2>1, <2>3
    <3>2. Alone(q) => Alone(q)'
      BY <1>8, <2>3, <3>1 DEF Alone
    <3> QED
      BY <1>1, <1>12, <2>1, <3>1, <3>2 DEF SaveOf
  <2> QED
    BY <2>2, <2>3
<1>13. ASSUME NEW q \in Procs \ {p}, phase[q] \notin Writing
       PROVE  SaveOf(q)'
  BY <1>8, <1>13 DEF SaveOf
<1> QED
  BY <1>6, <1>7, <1>9, <1>10, <1>11, <1>12, <1>13 DEF Store

\* A step of a save of p between the opening of its first file and its last
\* step: if p is clean nobody else saves there, and if the name is not mixed
\* nobody who loads it has got as far as a file that p has yet to write.
LEMMA WritingStore ==
    ASSUME StoreInv, NEW p \in Procs, phase[p] \in Writing,
           NEW at \in Writing, Goto(p, at),
           \A n \in Names \ {job[p].name} : files'[n] = files[n],
           UNCHANGED <<job, saved, unsettled, mixed>>,
           job[p].clean => Wrote(at, job[p], files'[job[p].name]),
           job[p].name \notin mixed =>
                /\ Blank(at, files'[job[p].name])
                /\ files[job[p].name]["address"].content
                        \in {None, files'[job[p].name]["address"].content}
    PROVE  Store'
<1> USE DEF StoreInv
<1>1. /\ \A q \in Procs \ {p} : phase'[q] = phase[q] /\ job'[q] = job[q]
      /\ phase'[p] = at /\ job'[p] = job[p]
  BY OthersStayToo
<1>2. SaveOf(p) /\ OwnOf(p)
  BY DEF Store
<1>3. StoreKeepsSaved'
  BY <1>2 DEF Store, StoreKeepsSaved, SaveOf
<1>4. Paired'
  <2>1. ASSUME job[p].name \notin mixed,
               files'[job[p].name]["key"].content # None
        PROVE  files'[job[p].name]["address"].content
                    = files'[job[p].name]["key"].content
    <3>1. at = "secureKey" /\ job[p].clean
      BY <1>2, <2>1 DEF SaveOf, Blank
    <3> QED
      BY <1>2, <3>1 DEF Wrote, OwnOf, Saving
  <2> QED
    BY <2>1 DEF Store, Paired
<1>5. ASSUME NEW q \in Procs
      PROVE  Alone(q) => Alone(q)'
  BY <1>1 DEF Alone
<1>6. ASSUME NEW q \in Procs
      PROVE  OwnOf(q)'
  BY <1>1 DEF Store, OwnOf, Saving
<1>7. ASSUME NEW q \in Procs
      PROVE  ReadOf(q)'
  <2> SUFFICES ASSUME q # p, phase[q] \in Reading, job[q].clean
               PROVE  ReadOf(q)'
    BY <1>1 DEF ReadOf, Reading, Writing
  <2>1. ReadOf(q) /\ phase'[q] = phase[q] /\ job'[q] = job[q]
    BY <1>1 DEF Store
  <2>2. /\ job[q].name \in Names
        /\ phase[q] = "readKey" => job[q].address \in Ids
    BY JobOf DEF Fits
  <2>3. job[q].name \notin mixed
    BY <2>1 DEF ReadOf
  <2>4. phase[q] = "readKey" =>
            files'[job[q].name]["address"].content
                = files[job[q].name]["address"].content
    BY <2>1, <2>2, <2>3, SetupAssumption DEF ReadOf
  <2> QED
    BY <2>1, <2>3, <2>4 DEF ReadOf
<1>8. SaveOf(p)'
  BY <1>1, <1>2, <1>5 DEF SaveOf
<1>9. ASSUME NEW q \in Procs \ {p}
      PROVE  SaveOf(q)'
  <2> SUFFICES ASSUME phase[q] \in Writing
               PROVE  SaveOf(q)'
    BY <1>1 DEF SaveOf
  <2>1. SaveOf(q)
    BY DEF Store
  <2>2. job[q].name \in Names
    BY JobOf DEF Fits, Saving
  <2>3. ASSUME job[q].clean
        PROVE  /\ Alone(q)' /\ files'[job[q].name] = files[job[q].name]
               /\ Wrote(phase[q], job[q], files[job[q].name])'
    <3>1. Alone(q) /\ Wrote(phase[q], job[q], files[job[q].name])
      BY <2>1, <2>3 DEF SaveOf
    <3>2. job[q].name # job[p].name
      BY <3>1 DEF Alone
    <3> QED
      BY <1>1, <1>5, <2>2, <3>1, <3>2
  <2> QED
    BY <1>1, <2>1, <2>3 DEF SaveOf
<1> QED
  BY <1>3, <1>4, <1>6, <1>7, <1>8, <1>9 DEF Store

LEMMA WriteContentStore ==
    ASSUME StoreInv, NEW p \in Procs,
           \/ WriteContent(p, "address", "writeAddress", "secureAddress")
           \/ WriteContent(p, "key", "writeKey", "secureKey")
    PROVE  Store'
<1> USE DEF StoreInv
<1> DEFINE n == job[p].name
<1>1. ASSUME NEW k \in Kinds, NEW now \in Writing, NEW next,
             WriteContent(p, k, now, next)
      PROVE  /\ n \in Names
             /\ \E f \in File :
                /\ f.content = job[p][k] /\ f.mode = files[n][k].mode
                /\ files' = [files EXCEPT ![n][k] = f]
  <2> DEFINE f == [files[n][k] EXCEPT !.content = job[p][k]]
  <2>1. n \in Names /\ files[n][k] \in File
    BY <1>1, FileOf DEF WriteContent
  <2>2. f \in File
    BY <1>1, <2>1, FileOf DEF WriteContent, File
  <2>3. f.content = job[p][k] /\ f.mode = files[n][k].mode
    BY <2>1 DEF File
  <2> QED
    BY <1>1, <2>1, <2>2, <2>3 DEF WriteContent
<1>2. SaveOf(p)
  BY DEF Store
<1>3. CASE WriteContent(p, "address", "writeAddress", "secureAddress")
  <2>1. PICK f \in File :
            /\ f.content = job[p]["address"]
            /\ files' = [files EXCEPT ![n]["address"] = f]
    BY <1>1, <1>3 DEF Kinds, Writing
  <2>2. n \in Names
    BY <1>1, <1>3 DEF Kinds, Writing
  <2>3. /\ files'[n]["address"] = f
        /\ files'[n]["key"] = files[n]["key"]
        /\ \A m \in Names \ {n} : files'[m] = files[m]
    BY <2>1, <2>2, OneFile
  <2>4. job[p].clean => Wrote("secureAddress", job[p], files'[n])
    BY <2>1, <2>3 DEF Wrote
  <2>5. n \notin mixed => /\ Blank("secureAddress", files'[n])
                         /\ files[n]["address"].content = None
    BY <1>2, <1>3, <2>3 DEF WriteContent, SaveOf, Blank, Writing
  <2> QED
    BY <1>3, <2>3, <2>4, <2>5, WritingStore DEF WriteContent, Writing
<1>4. CASE WriteContent(p, "key", "writeKey", "secureKey")
  <2>1. PICK f \in File :
            /\ f.content = job[p]["key"]
            /\ files' = [files EXCEPT ![n]["key"] = f]
    BY <1>1, <1>4 DEF Kinds, Writing
  <2>2. n \in Names /\ phase[p] = "writeKey"
    BY <1>1, <1>4 DEF WriteContent, Kinds, Writing
  <2>3. /\ files'[n]["key"] = f
        /\ files'[n]["address"] = files[n]["address"]
        /\ \A m \in Names \ {n} : files'[m] = files[m]
    BY <2>1, <2>2, OneFile
  <2>4. job[p].clean => Wrote("secureKey", job[p], files'[n])
    BY <1>2, <2>1, <2>2, <2>3 DEF SaveOf, Wrote, Writing
  <2>5. Blank("secureKey", files'[n])
    BY DEF Blank
  <2> QED
    BY <1>4, <2>3, <2>4, <2>5, WritingStore DEF WriteContent, Writing
<1> QED
  BY <1>3, <1>4

LEMMA SecureAddressStore ==
    ASSUME StoreInv, NEW p \in Procs, SecureAddress(p)
    PROVE  Store'
<1> USE DEF StoreInv
<1>1. /\ phase[p] = "secureAddress" /\ phase[p] \in Writing
      /\ "openKey" \in Writing /\ "address" \in Kinds
  BY DEF SecureAddress, Writing, Kinds
<1>2. job[p].name \in Names /\ files[job[p].name]["address"] \in File
  BY <1>1, FileOf
<1>3. PICK f \in File :
        /\ f.mode = "secure" /\ f.content = files[job[p].name]["address"].content
        /\ files' = [files EXCEPT ![job[p].name]["address"] = f]
  <2> DEFINE f == [files[job[p].name]["address"] EXCEPT !.mode = "secure"]
  <2>1. f \in File
    BY <1>2 DEF File, Modes
  <2>2. f.mode = "secure" /\ f.content = files[job[p].name]["address"].content
    BY <1>2 DEF File
  <2> QED
    BY <1>2, <2>1, <2>2 DEF SecureAddress
<1>4. /\ files'[job[p].name]["address"] = f
      /\ files'[job[p].name]["key"] = files[job[p].name]["key"]
      /\ \A m \in Names \ {job[p].name} : files'[m] = files[m]
  BY <1>2, <1>3, OneFile
<1>5. SaveOf(p)
  BY DEF Store
<1>6. job[p].clean => Wrote("openKey", job[p], files'[job[p].name])
  BY <1>1, <1>3, <1>4, <1>5 DEF SaveOf, Wrote
<1>7. job[p].name \notin mixed => Blank("openKey", files'[job[p].name])
  BY <1>1, <1>4, <1>5 DEF SaveOf, Blank
<1> QED
  BY <1>1, <1>3, <1>4, <1>6, <1>7, WritingStore DEF SecureAddress

LEMMA OpenKeyStore ==
    ASSUME StoreInv, NEW p \in Procs, OpenKey(p)
    PROVE  Store'
<1> USE DEF StoreInv
<1> DEFINE f == Emptied(files[job[p].name]["key"])
<1>1. /\ phase[p] = "openKey" /\ phase[p] \in Writing
      /\ "writeKey" \in Writing /\ "key" \in Kinds
  BY DEF OpenKey, Writing, Kinds
<1>2. job[p].name \in Names /\ f \in File /\ f.content = None
  BY <1>1, FileOf, EmptiedFile
<1>3. files' = [files EXCEPT ![job[p].name]["key"] = f]
  BY <1>2 DEF OpenKey
<1> HIDE DEF f
<1>4. /\ files'[job[p].name]["address"] = files[job[p].name]["address"]
      /\ files'[job[p].name]["key"] = f
      /\ \A m \in Names \ {job[p].name} : files'[m] = files[m]
  BY <1>2, <1>3, OneFile
<1>5. SaveOf(p)
  BY DEF Store
<1>6. job[p].clean => Wrote("writeKey", job[p], files'[job[p].name])
  BY <1>1, <1>4, <1>5 DEF SaveOf, Wrote
<1>7. Blank("writeKey", files'[job[p].name])
  BY <1>2, <1>4 DEF Blank
<1> QED
  BY <1>1, <1>4, <1>6, <1>7, WritingStore DEF OpenKey

\* The last step of a clean save leaves both files as they are recorded.
LEMMA SecureKeyStore ==
    ASSUME StoreInv, NEW p \in Procs, SecureKey(p)
    PROVE  Store'
<1> USE DEF StoreInv
<1> DEFINE n == job[p].name
<1>1. phase[p] = "secureKey" /\ phase[p] \in Writing /\ "key" \in Kinds
  BY DEF SecureKey, Writing, Kinds
<1>2. n \in Names /\ files[n]["key"] \in File /\ job[p].key \in Ids
  BY <1>1, FileOf
<1>3. PICK f \in File :
        /\ f.mode = "secure" /\ f.content = files[n]["key"].content
        /\ files' = [files EXCEPT ![n]["key"] = f]
  <2> DEFINE f == [files[n]["key"] EXCEPT !.mode = "secure"]
  <2>1. f \in File
    BY <1>2 DEF File, Modes
  <2>2. f.mode = "secure" /\ f.content = files[n]["key"].content
    BY <1>2 DEF File
  <2> QED
    BY <1>2, <2>1, <2>2 DEF SecureKey
<1>4. /\ files'[n]["key"] = f
      /\ files'[n]["address"] = files[n]["address"]
      /\ \A m \in Names \ {n} : files'[m] = files[m]
  BY <1>1, <1>2, <1>3, OneFile
<1>5. /\ \A q \in Procs \ {p} : phase'[q] = phase[q] /\ job'[q] = job[q]
      /\ phase'[p] = "binding" /\ job'[p] = job[p]
  BY OthersStayToo DEF SecureKey
<1>6. SaveOf(p) /\ OwnOf(p)
  BY DEF Store
<1>7. /\ \A m \in Names \ {n} : saved'[m] = saved[m]
      /\ \A m \in Names \ {n} : m \in unsettled => m \in unsettled'
      /\ ~job[p].clean => unsettled' = unsettled /\ saved' = saved
      /\ job[p].clean => saved'[n] = job[p].key
      /\ unsettled' \subseteq unsettled
      /\ mixed' \subseteq mixed /\ mixed \subseteq mixed' \cup {n}
      /\ ~job[p].clean => mixed' = mixed
  BY <1>2 DEF SecureKey, TypeInv, Records
<1>8. StoreKeepsSaved'
  <2>1. ASSUME NEW m \in Names \ {n}, m \notin unsettled', NEW k \in Kinds
        PROVE  /\ files'[m][k].content = saved'[m]
               /\ files'[m][k].mode = IF saved'[m] = None THEN "absent" ELSE "secure"
    <3>1. files'[m] = files[m] /\ saved'[m] = saved[m] /\ m \notin unsettled
      BY <1>4, <1>7, <2>1
    <3> QED
      BY <3>1 DEF Store, StoreKeepsSaved
  <2>2. ASSUME n \notin unsettled'
        PROVE  /\ job[p].clean /\ saved'[n] = job[p].key /\ saved'[n] # None
               /\ job[p].address = job[p].key
    BY <1>1, <1>2, <1>6, <1>7, <2>2, SetupAssumption DEF SaveOf, OwnOf, Saving
  <2>3. ASSUME n \notin unsettled'
        PROVE  /\ files'[n]["key"].content = saved'[n]
               /\ files'[n]["key"].mode = "secure"
               /\ files'[n]["address"].content = saved'[n]
               /\ files'[n]["address"].mode = "secure"
    BY <1>1, <1>3, <1>4, <1>6, <2>2, <2>3 DEF SaveOf, Wrote
  <2> QED
    BY <2>1, <2>2, <2>3 DEF StoreKeepsSaved, Kinds
<1>9. ASSUME NEW q \in Procs
       PROVE  ReadOf(q)' /\ OwnOf(q)'
  <2>1. OwnOf(q)'
    BY <1>1, <1>5 DEF Store, OwnOf, Saving
  <2>2. CASE q # p /\ phase[q] \in Reading /\ job[q].clean
    <3>1. job[q].name \in Names /\ ReadOf(q)
      BY <2>2, JobOf DEF Fits, Store
    <3>2. /\ phase'[q] = phase[q] /\ job'[q] = job[q]
          /\ files'[job[q].name]["address"] = files[job[q].name]["address"]
      BY <1>4, <1>5, <2>2, <3>1
    <3> QED
      BY <1>7, <2>1, <2>2, <3>1, <3>2 DEF ReadOf
  <2>3. CASE ~(q # p /\ phase[q] \in Reading /\ job[q].clean)
    BY <1>5, <2>1, <2>3 DEF ReadOf, Reading
  <2> QED
    BY <2>2, <2>3
<1>10. ASSUME NEW q \in Procs \ {p}, phase[q] \in Writing
       PROVE  SaveOf(q)'
  <2>1. SaveOf(q)
    BY DEF Store
  <2>2. job[q].name \in Names
    BY <1>10, JobOf DEF Fits, Saving
  <2>3. job[q].name \in unsettled'
    <3>1. CASE job[q].name = n
      BY <1>6, <1>7, <1>1, <1>10, <2>1, <3>1 DEF SaveOf, Alone
    <3>2. CASE job[q].name # n
      BY <1>7, <1>10, <2>1, <2>2, <3>2 DEF SaveOf
    <3> QED
      BY <3>1, <3>2
  <2>4. ASSUME job[q].clean
        PROVE  Alone(q)' /\ Wrote(phase[q], job[q], files[job[q].name])'
    <3>1. Alone(q) /\ Wrote(phase[q], job[q], files[job[q].name])
      BY <1>10, <2>1, <2>4 DEF SaveOf
    <3>2. job[q].name # n
      BY <1>1, <3>1 DEF Alone
    <3>3. Alone(q)'
      BY <1>5, <3>1 DEF Alone, Writing
    <3> QED
      BY <1>4, <1>5, <2>2, <3>1, <3>2, <3>3
  <2>5. ASSUME job[q].name \notin mixed'
        PROVE  job[q].clean /\ Blank(phase[q], files'[job[q].name])
    <3>1. job[q].name # n
      BY <1>1, <1>6, <1>7, <1>10, <2>5 DEF SaveOf, Alone
    <3>2. /\ job[q].name \notin mixed
          /\ files'[job[q].name] = files[job[q].name]
      BY <1>4, <1>7, <2>2, <2>5, <3>1
    <3> QED
      BY <1>10, <2>1, <3>2 DEF SaveOf
  <2> QED
    BY <1>5, <2>3, <2>4, <2>5 DEF SaveOf
<1>11. ASSUME NEW q \in Procs
       PROVE  SaveOf(q)'
  BY <1>5, <1>10 DEF SaveOf, Writing
<1>12. Paired'
  <2>1. ASSUME n \in mixed, n \notin mixed'
        PROVE  files'[n]["address"].content = files'[n]["key"].content
    BY <1>1, <1>3, <1>4, <1>6, <1>7, <2>1 DEF SaveOf, Wrote, OwnOf, Saving
  <2>2. ASSUME n \notin mixed, files'[n]["key"].content # None
        PROVE  files'[n]["address"].content = files'[n]["key"].content
    BY <1>2, <1>3, <1>4, <2>2 DEF Store, Paired
  <2> QED
    BY <1>4, <1>7, <2>1, <2>2 DEF Store, Paired
<1> QED
  BY <1>8, <1>9, <1>11, <1>12 DEF Store

LEMMA ReadAddressStore ==
    ASSUME StoreInv, NEW p \in Procs, ReadAddress(p)
    PROVE  Store'
<1> USE DEF StoreInv
<1> DEFINE address == files[job[p].name].address.content
<1>1. PICK j \in Jobs :
        /\ j.name = job[p].name /\ j.clean = job[p].clean /\ j.address = address
        /\ job' = [job EXCEPT ![p] = j]
  <2> DEFINE j == [job[p] EXCEPT !.address = address,
                                 !.listen = ListenAddress(@, made[address])]
  <2>1. /\ job[p] \in Jobs /\ job[p].name \in Names
    BY JobOf DEF ReadAddress, Fits, Reading
  <2>2. address \in Ids /\ made[address] \in Ports
    BY <2>1 DEF ReadAddress, Usable, TypeInv, Files, Tor, File, Kinds, IsMade
  <2>3. ListenAddress(job[p].listen, made[address]) \in Ports
    BY <2>1, <2>2 DEF ListenAddress, Jobs
  <2>4. /\ j \in Jobs
        /\ j.name = job[p].name /\ j.clean = job[p].clean /\ j.address = address
    BY <2>1, <2>2, <2>3 DEF Jobs
  <2>5. job' = [job EXCEPT ![p] = j]
    BY <2>1 DEF ReadAddress, TypeInv, Processes
  <2> QED
    BY <2>4, <2>5
<1>2. /\ \A q \in Procs \ {p} : phase'[q] = phase[q] /\ job'[q] = job[q]
      /\ phase'[p] = "readKey" /\ job'[p] = j
      /\ phase[p] = "readAddress" /\ UNCHANGED <<files, saved, unsettled, mixed>>
  <2>1. /\ Goto(p, "readKey") /\ phase[p] = "readAddress"
        /\ UNCHANGED <<files, saved, unsettled, mixed>>
    BY DEF ReadAddress, disk
  <2> QED
    BY <1>1, <2>1, OthersStay
<1>3. ReadOf(p)'
  <2>1. job[p].clean => job[p].name \notin mixed
    BY <1>2 DEF Store, ReadOf, Reading
  <2>2. j.clean => j.name \notin mixed'
    BY <1>1, <1>2, <2>1
  <2>3. j.address = files'[j.name]["address"].content
    BY <1>1, <1>2
  <2> QED
    BY <1>2, <2>2, <2>3 DEF ReadOf
<1>4. OwnOf(p)' /\ phase'[p] \notin Writing
  BY <1>2 DEF OwnOf, Saving, Writing
<1> QED
  BY <1>2, <1>3, <1>4, FilesAlone

LEMMA ReadKeyStore ==
    ASSUME StoreInv, NEW p \in Procs, ReadKey(p)
    PROVE  Store'
<1> USE DEF StoreInv
<1> DEFINE key == files[job[p].name].key.content
<1>1. PICK j \in Jobs :
        /\ j.clean = job[p].clean /\ j.address = job[p].address /\ j.key = key
        /\ job' = [job EXCEPT ![p] = j]
  <2> DEFINE j == [job[p] EXCEPT !.key = key]
  <2>1. job[p] \in Jobs /\ job[p].name \in Names
    BY JobOf DEF ReadKey, Fits, Reading
  <2>2. key \in Ids
    BY <2>1 DEF ReadKey, Usable, TypeInv, Files, File, Kinds
  <2>3. /\ j \in Jobs
        /\ j.clean = job[p].clean /\ j.address = job[p].address /\ j.key = key
    BY <2>1, <2>2 DEF Jobs
  <2>4. job' = [job EXCEPT ![p] = j]
    BY <2>1 DEF ReadKey, TypeInv, Processes
  <2> QED
    BY <2>3, <2>4
<1>2. /\ \A q \in Procs \ {p} : phase'[q] = phase[q] /\ job'[q] = job[q]
      /\ phase'[p] = "asking" /\ job'[p] = j
      /\ phase[p] = "readKey" /\ UNCHANGED <<files, saved, unsettled, mixed>>
  <2>1. /\ Goto(p, "asking") /\ phase[p] = "readKey"
        /\ UNCHANGED <<files, saved, unsettled, mixed>>
    BY DEF ReadKey, disk
  <2> QED
    BY <1>1, <2>1, OthersStay
<1>3. OwnOf(p)'
  <2> SUFFICES ASSUME job[p].clean
               PROVE  job[p].address = key
    BY <1>1, <1>2 DEF OwnOf, Saving, Writing
  <2>1. /\ job[p].name \notin mixed /\ job[p].name \in Names
        /\ job[p].address = files[job[p].name]["address"].content
    BY <1>2, JobOf DEF Store, ReadOf, Fits, Reading
  <2>2. key # None
    BY DEF ReadKey, Usable
  <2> QED
    BY <2>1, <2>2 DEF Store, Paired
<1>4. ReadOf(p)' /\ phase'[p] \notin Writing
  BY <1>2 DEF ReadOf, Reading, Writing
<1> QED
  BY <1>2, <1>3, <1>4, FilesAlone

LEMMA AskTorStore ==
    ASSUME StoreInv, NEW p \in Procs, AskTor(p)
    PROVE  Store'
<1> USE DEF StoreInv
<1>1. PICK there \in BOOLEAN : job' = [job EXCEPT ![p].reused = there]
  BY DEF AskTor
<1>2. job[p] \in Jobs
  BY JobOf
<1>3. /\ \A q \in Procs \ {p} : phase'[q] = phase[q] /\ job'[q] = job[q]
      /\ phase'[p] \in {"binding", "adding"} /\ phase[p] = "asking"
      /\ job'[p].address = job[p].address /\ job'[p].key = job[p].key
      /\ job'[p].clean = job[p].clean
  BY <1>1, <1>2 DEF AskTor, Goto, TypeInv, Processes, Jobs
<1>4. OwnOf(p)'
  BY <1>3 DEF Store, OwnOf, Saving, Writing
<1>5. ReadOf(p)' /\ phase'[p] \notin Writing
  BY <1>3 DEF ReadOf, Reading, Writing
<1> QED
  BY <1>3, <1>4, <1>5, FilesAlone DEF AskTor, disk

LEMMA AddSavedStore ==
    ASSUME StoreInv, NEW p \in Procs, AddSaved(p)
    PROVE  Store'
<1> USE DEF StoreInv
<1>1. /\ \A q \in Procs \ {p} : phase'[q] = phase[q] /\ job'[q] = job[q]
      /\ phase'[p] = "binding" /\ job'[p] = job[p]
      /\ phase[p] = "adding" /\ job[p].kind = "load"
  BY OthersStayToo DEF AddSaved
<1>2. OwnOf(p)' /\ ReadOf(p)' /\ phase'[p] \notin Writing
  BY <1>1 DEF Store, OwnOf, ReadOf, Reading, Saving, Writing
<1> QED
  BY <1>1, <1>2, FilesAlone DEF AddSaved, disk

LEMMA BindStore ==
    ASSUME StoreInv, NEW p \in Procs, Bind(p)
    PROVE  Store'
<1> USE DEF StoreInv
<1>1. /\ \A q \in Procs \ {p} : phase'[q] = phase[q] /\ job'[q] = job[q]
      /\ phase'[p] = "serving" /\ job'[p] = job[p] /\ phase[p] = "binding"
  BY OthersStayToo DEF Bind
<1>2. OwnOf(p)' /\ ReadOf(p)' /\ phase'[p] \notin Writing
  BY <1>1 DEF Store, OwnOf, ReadOf, Reading, Saving, Writing
<1> QED
  BY <1>1, <1>2, FilesAlone DEF Bind, disk

LEMMA LeaveStore ==
    ASSUME StoreInv, NEW p \in Procs, Fail(p) \/ End(p)
    PROVE  Store'
<1> USE DEF StoreInv
<1>1. PICK at \in {"off", "ready"} : Goto(p, at) /\ job' = [job EXCEPT ![p] = NoJob]
  BY DEF Fail, End
<1>2. /\ \A q \in Procs \ {p} : phase'[q] = phase[q] /\ job'[q] = job[q]
      /\ phase'[p] \in {"off", "ready"}
  BY <1>1, OthersStay
<1>3. OwnOf(p)' /\ ReadOf(p)' /\ phase'[p] \notin Writing
  BY <1>2 DEF OwnOf, ReadOf, Reading, Saving, Writing
<1> QED
  BY <1>2, <1>3, FilesAlone DEF Fail, End, disk

LEMMA StoreStep == StoreInv /\ [Next]_vars => Store'
<1> SUFFICES ASSUME StoreInv, [Next]_vars
             PROVE  Store'
  OBVIOUS
<1>1. CASE UNCHANGED <<phase, job, disk>>
  BY <1>1
  DEF disk, StoreInv, Store, StoreKeepsSaved, Paired, SaveOf, ReadOf, OwnOf,
      Alone, Wrote, Blank
<1>2. ASSUME NEW p \in Procs, Save(p)
      PROVE  Store'
  BY <1>2, CreateSecureDirsStore, OpenAddressStore, WriteContentStore,
     SecureAddressStore, OpenKeyStore, SecureKeyStore
  DEF Save
<1>3. ASSUME NEW p \in Procs, Step(p)
      PROVE  Store'
  BY <1>2, <1>3, AddNewStore, ReadAddressStore, ReadKeyStore, AskTorStore,
     AddSavedStore, BindStore
  DEF Step
<1>4. CASE TorRestarts \/ UNCHANGED vars
  BY <1>1, <1>4 DEF TorRestarts, vars, disk
<1> QED
  BY <1>3, <1>4, StartStore, LeaveStore DEF Next

LEMMA StoreHolds == Spec => []StoreInv
<1> QED
  BY TypeInit, StoreInit, TypeStep, StoreStep, PTL DEF Spec, StoreInv

\* What a save put on disk under a name stays there, in both files, until the
\* next save under the name opens them: however many processes there are,
\* whichever of them fail or end between any two system calls.
THEOREM StoreKept == Spec => []StoreKeepsSaved
<1>1. StoreInv => StoreKeepsSaved
  BY DEF StoreInv, Store
<1> QED
  BY <1>1, StoreHolds, PTL

\* A process that no other save disturbed signs with the key of the id it goes
\* by, although it reads the two files one after the other.
THEOREM IdentityKept == Spec => []IdentityIsOwn
<1>1. StoreInv => IdentityIsOwn
  BY DEF StoreInv, Store, OwnOf, IdentityIsOwn
<1> QED
  BY <1>1, StoreHolds, PTL

-----------------------------------------------------------------------------
(* Tor.  From the moment a process has its service in Tor, added by itself  *)
(* or found there, until it loses its control connection, the service stays *)
(* there: it is detached or the process owns it.  It stays as it was added, *)
(* for nobody adds a service that is there.                                 *)

ReachOf(p) ==
    /\ p \in control
    /\ phase[p] \in Saving \cup {"binding", "serving"}
    /\ job[p].reused \/ job[p].address = job[p].key
    => /\ tor[job[p].address] # None
       /\ tor[job[p].address].owner \in {None, p}
       /\ job[p].reused \/ tor[job[p].address].listen = job[p].listen

Reach == \A p \in Procs : ReachOf(p)

\* A service forwards to where somebody told Tor to forward it.
Asked == \A i \in Ids : tor[i] # None => tor[i].listen \in asked[i]

ReachInv == TypeInv /\ Reach

LEMMA ReachInit == Init => Reach /\ Asked
  BY DEF Init, Reach, ReachOf, Asked

\* A step of p that leaves Tor alone.
LEMMA TorAlone ==
    ASSUME ReachInv, NEW p \in Procs,
           \A q \in Procs \ {p} : phase'[q] = phase[q] /\ job'[q] = job[q],
           control' \subseteq control \cup {p}, tor' = tor, ReachOf(p)'
    PROVE  Reach'
<1>1. ASSUME NEW q \in Procs \ {p}
      PROVE  ReachOf(q)'
  BY DEF ReachInv, Reach, ReachOf
<1> QED
  BY <1>1 DEF Reach

LEMMA StartReach ==
    ASSUME ReachInv, NEW p \in Procs, Start(p)
    PROVE  Reach'
<1> USE DEF ReachInv
<1>1. /\ \A q \in Procs \ {p} : phase'[q] = phase[q] /\ job'[q] = job[q]
      /\ phase'[p] \in {"ready", "adding", "readAddress"}
  BY DEF Start, Connect, Create, Load, Goto, TypeInv, Processes
<1>2. control' \subseteq control \cup {p} /\ tor' = tor
  BY DEF Start, Connect, Create, Load
<1>3. ReachOf(p)'
  BY <1>1 DEF ReachOf, Saving, Writing
<1> QED
  BY <1>1, <1>2, <1>3, TorAlone

LEMMA SaveReach ==
    ASSUME ReachInv, NEW p \in Procs, Save(p)
    PROVE  Reach'
<1> USE DEF ReachInv
<1>1. /\ phase[p] \in Saving /\ phase'[p] \in Saving \cup {"binding"}
      /\ \A q \in Procs \ {p} : phase'[q] = phase[q]
      /\ control' = control /\ tor' = tor
  BY DEF Save, CreateSecureDirs, MakeDirectory, SecureDirectory, OpenAddress,
         WriteContent, SecureAddress, OpenKey, SecureKey, Goto, Saving, Writing,
         TypeInv, Processes
<1>2. ASSUME NEW q \in Procs
      PROVE  /\ job'[q].listen = job[q].listen
             /\ job'[q].address = job[q].address
             /\ job'[q].key = job[q].key
             /\ job'[q].reused = job[q].reused
  <2>1. CASE OpenAddress(p)
    BY <2>1, Disturbs
  <2>2. CASE UNCHANGED job
    BY <2>2
  <2> QED
    BY <2>1, <2>2
    DEF Save, CreateSecureDirs, MakeDirectory, SecureDirectory, WriteContent,
        SecureAddress, OpenKey, SecureKey
<1>3. ASSUME NEW q \in Procs
      PROVE  ReachOf(q)'
  BY <1>1, <1>2 DEF Reach, ReachOf
<1> QED
  BY <1>3 DEF Reach

LEMMA AddNewReach ==
    ASSUME ReachInv, NEW p \in Procs, AddNew(p)
    PROVE  Reach'
<1> USE DEF ReachInv
<1>1. PICK i \in Ids :
        /\ made[i] = None
        /\ tor' = [tor EXCEPT ![i] =
                    [listen |-> job[p].listen,
                     owner |-> IF job[p].kind = "transient" THEN p ELSE None]]
        /\ job' = [job EXCEPT ![p].address = i, ![p].key = i]
  BY DEF AddNew
<1>2. job[p] \in Jobs /\ control' = control
  BY JobOf DEF AddNew
<1>3. /\ \A q \in Procs \ {p} : phase'[q] = phase[q] /\ job'[q] = job[q]
      /\ job'[p].address = i /\ job'[p].listen = job[p].listen
  BY <1>1, <1>2 DEF AddNew, Goto, TypeInv, Processes, Jobs
<1>4. /\ tor'[i].listen = job[p].listen /\ tor'[i].owner \in {None, p}
      /\ \A x \in Ids \ {i} : tor'[x] = tor[x]
      /\ tor'[i] \in Service
  <2>1. job[p].listen \in Ports
    BY JobOf DEF AddNew, Fits
  <2> QED
    BY <1>1, <2>1 DEF TypeInv, Tor, Service
<1>5. tor'[i] # None
  BY <1>4, SetupAssumption
<1>6. ReachOf(p)'
  BY <1>3, <1>4, <1>5 DEF ReachOf
<1>7. ASSUME NEW q \in Procs \ {p}
      PROVE  ReachOf(q)'
  <2>1. phase[q] \in Saving \cup {"binding", "serving"}
            => job[q].address \in Ids \ {i}
    BY <1>1, JobOf DEF Fits, IsMade
  <2> QED
    BY <1>2, <1>3, <1>4, <2>1 DEF Reach, ReachOf
<1> QED
  BY <1>6, <1>7 DEF Reach

LEMMA AskTorReach ==
    ASSUME ReachInv, NEW p \in Procs, AskTor(p)
    PROVE  Reach'
<1> USE DEF ReachInv
<1>1. PICK there \in BOOLEAN :
        /\ there => /\ tor[job[p].address] # None
                    /\ tor[job[p].address].owner = None
        /\ Goto(p, IF there THEN "binding" ELSE "adding")
        /\ job' = [job EXCEPT ![p].reused = there]
        /\ UNCHANGED <<control, tor>>
  BY DEF AskTor
<1>2. job[p] \in Jobs
  BY JobOf
<1>3. /\ \A q \in Procs \ {p} : phase'[q] = phase[q] /\ job'[q] = job[q]
      /\ phase'[p] = IF there THEN "binding" ELSE "adding"
      /\ job'[p].reused = there /\ job'[p].address = job[p].address
  BY <1>1, <1>2 DEF Goto, TypeInv, Processes, Jobs
<1>4. ReachOf(p)'
  BY <1>1, <1>3 DEF ReachOf, Saving, Writing
<1> QED
  BY <1>1, <1>3, <1>4, TorAlone

LEMMA ReadReach ==
    ASSUME ReachInv, NEW p \in Procs, ReadAddress(p) \/ ReadKey(p)
    PROVE  Reach'
<1> USE DEF ReachInv
<1>1. /\ \A q \in Procs \ {p} : phase'[q] = phase[q] /\ job'[q] = job[q]
      /\ phase'[p] \in {"readKey", "asking"}
      /\ UNCHANGED <<control, tor>>
  BY DEF ReadAddress, ReadKey, Goto, TypeInv, Processes
<1>2. ReachOf(p)'
  BY <1>1 DEF ReachOf, Saving, Writing
<1> QED
  BY <1>1, <1>2, TorAlone

LEMMA AddSavedReach ==
    ASSUME ReachInv, NEW p \in Procs, AddSaved(p)
    PROVE  Reach'
<1> USE DEF ReachInv
<1> DEFINE i == job[p].key
<1>1. /\ \A q \in Procs \ {p} : phase'[q] = phase[q] /\ job'[q] = job[q]
      /\ phase'[p] = "binding" /\ job'[p] = job[p] /\ control' = control
      /\ phase[p] = "adding" /\ job[p].kind = "load"
  BY OthersStayToo DEF AddSaved
<1>2. /\ tor[i] = None /\ tor'[i] \in Service
      /\ tor'[i].listen = job[p].listen /\ tor'[i].owner = None
      /\ \A x \in Ids \ {i} : tor'[x] = tor[x]
  <2>1. job[p].listen \in Ports /\ i \in Ids
    BY <1>1, JobOf DEF Fits
  <2> QED
    BY <2>1 DEF AddSaved, TypeInv, Tor, Service
<1>3. ReachOf(p)'
  <2>1. tor'[i] # None
    BY <1>2, SetupAssumption
  <2>2. ~job[p].reused
    BY <1>1, JobOf DEF Fits
  <2> QED
    BY <1>1, <1>2, <2>1, <2>2 DEF ReachOf
<1>4. ASSUME NEW q \in Procs \ {p}
      PROVE  ReachOf(q)'
  <2>1. phase[q] \in Saving \cup {"binding", "serving"} => job[q].address \in Ids
    BY JobOf DEF Fits
  <2> QED
    BY <1>1, <1>2, <2>1 DEF Reach, ReachOf
<1> QED
  BY <1>3, <1>4 DEF Reach

LEMMA BindReach ==
    ASSUME ReachInv, NEW p \in Procs, Bind(p)
    PROVE  Reach'
<1> USE DEF ReachInv
<1>1. /\ \A q \in Procs \ {p} : phase'[q] = phase[q] /\ job'[q] = job[q]
      /\ job'[p] = job[p] /\ phase[p] = "binding"
      /\ UNCHANGED <<control, tor>>
  BY OthersStayToo DEF Bind
<1>2. ReachOf(p)'
  BY <1>1 DEF Reach, ReachOf
<1> QED
  BY <1>1, <1>2, TorAlone

LEMMA LeaveReach ==
    ASSUME ReachInv, NEW p \in Procs, Fail(p) \/ End(p)
    PROVE  Reach'
<1> USE DEF ReachInv
<1>1. /\ \A q \in Procs \ {p} : phase'[q] = phase[q] /\ job'[q] = job[q]
      /\ phase'[p] \in {"off", "ready"}
      /\ control' \subseteq control
  BY DEF Fail, End, Goto, TypeInv, Processes
<1>2. \A x \in Ids :
        tor'[x] = tor[x] \/ (tor[x] # None /\ tor[x].owner = p)
  BY DEF Fail, End
<1>3. ReachOf(p)'
  BY <1>1 DEF ReachOf, Saving, Writing
<1>4. ASSUME NEW q \in Procs \ {p}
      PROVE  ReachOf(q)'
  <2>1. phase[q] \in Saving \cup {"binding", "serving"} => job[q].address \in Ids
    BY JobOf DEF Fits
  <2>2. p \notin {None, q}
    BY SetupAssumption
  <2> QED
    BY <1>1, <1>2, <2>1, <2>2 DEF Reach, ReachOf
<1> QED
  BY <1>3, <1>4 DEF Reach

LEMMA ReachStep == ReachInv /\ [Next]_vars => Reach'
<1> SUFFICES ASSUME ReachInv, [Next]_vars
             PROVE  Reach'
  OBVIOUS
<1>1. CASE TorRestarts
  BY <1>1 DEF TorRestarts, Reach, ReachOf
<1>2. CASE UNCHANGED vars
  BY <1>2 DEF vars, ReachInv, Reach, ReachOf
<1>3. ASSUME NEW p \in Procs, Step(p)
      PROVE  Reach'
  BY <1>3, AddNewReach, SaveReach, ReadReach, AskTorReach, AddSavedReach,
     BindReach
  DEF Step
<1> QED
  BY <1>1, <1>2, <1>3, StartReach, LeaveReach DEF Next

\* What Tor was told to do with a service covers what it does with it.
LEMMA AskedStep == TypeInv /\ Asked /\ [Next]_vars => Asked'
<1> SUFFICES ASSUME TypeInv, Asked, [Next]_vars
             PROVE  Asked'
  OBVIOUS
<1>1. CASE UNCHANGED <<tor, asked>>
  BY <1>1 DEF Asked
<1>2. CASE TorRestarts
  BY <1>2 DEF TorRestarts, Asked
<1>3. ASSUME NEW p \in Procs, End(p)
      PROVE  Asked'
  BY <1>3 DEF End, Asked
<1>4. ASSUME NEW p \in Procs, AddNew(p) \/ AddSaved(p)
      PROVE  Asked'
  <2>1. ASSUME NEW i \in Ids, NEW s \in Service, NEW ports,
               tor' = [tor EXCEPT ![i] = s],
               asked' = [asked EXCEPT ![i] = ports], s.listen \in ports
        PROVE  Asked'
    <3>1. /\ tor'[i] = s /\ asked'[i] = ports
          /\ \A x \in Ids \ {i} : tor'[x] = tor[x] /\ asked'[x] = asked[x]
      BY <2>1 DEF TypeInv, Tor
    <3> QED
      BY <2>1, <3>1 DEF Asked
  <2>2. job[p] \in Jobs /\ job[p].listen \in Ports
    BY <1>4, JobOf DEF AddNew, AddSaved, Fits
  <2>3. CASE AddNew(p)
    <3> DEFINE s == [listen |-> job[p].listen,
                     owner |-> IF job[p].kind = "transient" THEN p ELSE None]
    <3>1. s \in Service /\ s.listen = job[p].listen
      BY <2>2 DEF Service
    <3>2. PICK i \in Ids : /\ tor' = [tor EXCEPT ![i] = s]
                           /\ asked' = [asked EXCEPT ![i] = {job[p].listen}]
      BY <2>3 DEF AddNew
    <3> HIDE DEF s
    <3> QED
      BY <2>1, <3>1, <3>2
  <2>4. CASE AddSaved(p)
    <3>1. job[p].key \in Ids
      BY <2>4, JobOf DEF AddSaved, Fits
    <3> QED
      BY <2>1, <2>2, <2>4, <3>1 DEF AddSaved, Service
  <2> QED
    BY <1>4, <2>3, <2>4
<1>5. ASSUME NEW p \in Procs, Step(p)
      PROVE  Asked'
  BY <1>1, <1>4, <1>5
  DEF Step, Save, CreateSecureDirs, MakeDirectory, SecureDirectory, OpenAddress,
      WriteContent, SecureAddress, OpenKey, SecureKey, ReadAddress, ReadKey,
      AskTor, Bind
<1>6. ASSUME NEW p \in Procs, Start(p) \/ Fail(p)
      PROVE  Asked'
  BY <1>1, <1>6 DEF Start, Connect, Create, Load, Fail
<1>7. CASE UNCHANGED vars
  BY <1>1, <1>7 DEF vars
<1> QED
  BY <1>2, <1>3, <1>5, <1>6, <1>7 DEF Next

\* Connections to the address that was returned get to the listener that was
\* returned, as long as Tor and the control connection last, whatever other
\* processes add, fail at or take with them: with a service that was added for
\* this session, if the key belongs to the id; with one that was there, if
\* nobody told this Tor to forward it anywhere else.
THEOREM ServedReached == Spec => []ServedIsReachable
<1>1. ReachInv /\ Asked => ServedIsReachable
  <2> SUFFICES ASSUME ReachInv, Asked, NEW p \in control, phase[p] = "serving",
                      IF job[p].reused
                      THEN asked[job[p].address] \subseteq {job[p].listen}
                      ELSE job[p].address = job[p].key
               PROVE  /\ tor[job[p].address] # None
                      /\ tor[job[p].address].listen = job[p].listen
    BY DEF ServedIsReachable
  <2>1. p \in Procs /\ job[p].address \in Ids
    BY JobOf DEF ReachInv, TypeInv, Tor, Fits
  <2>2. /\ tor[job[p].address] # None
        /\ job[p].reused \/ tor[job[p].address].listen = job[p].listen
    BY <2>1 DEF ReachInv, Reach, ReachOf
  <2>3. tor[job[p].address].listen \in asked[job[p].address]
    BY <2>1, <2>2 DEF Asked
  <2> QED
    BY <2>2, <2>3
<1>2. Init /\ TypeInv => ReachInv /\ Asked
  BY ReachInit DEF ReachInv
<1>3. ReachInv /\ Asked /\ [Next]_vars => ReachInv' /\ Asked'
  BY ReachStep, AskedStep, TypeStep DEF ReachInv
<1> QED
  BY <1>1, <1>2, <1>3, TypeInit, PTL DEF Spec
=============================================================================
