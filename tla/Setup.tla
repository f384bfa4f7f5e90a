-------------------------------- MODULE Setup -------------------------------
(***************************************************************************)
(* How a process gets its onion service (src/src/control_connection.rs)    *)
(* and where persistent services are kept (src/src/util.rs): a directory   *)
(* below the home directory of voynich for each name, with a file for the  *)
(* address and a file for the secret key.                                  *)
(*                                                                         *)
(* Several processes of one user share the files and one Tor.  A process   *)
(* may end between any two system calls, every call may fail, and Tor may  *)
(* restart.  Detached services stay in Tor until then; transient ones end  *)
(* with the control connection that made them.                             *)
(*                                                                         *)
(* A service and its key are one value here, an id: the key determines the *)
(* id, and an address is the id and the port the service was made with.    *)
(***************************************************************************)
CONSTANTS
    Procs,  \* voynich processes
    Names,  \* names of persistent services
    Ids,    \* bound: services Tor makes up in all
    Ports,  \* service ports; a listen address is named by its local port
    Home,   \* DATA_DIR, ~/.voynich
    Fresh,  \* mode of a new file or directory, what the umask leaves: "loose"
            \* (util.rs would call it too permissive) or "secure"
    None    \* no name, id, port or service

Service == [listen : Ports, owner : Procs \cup {None}]

ASSUME SetupAssumption ==
    /\ None \notin Procs \cup Names \cup Ids \cup Ports
    /\ None \notin Service
    /\ Home \notin Names
    /\ Fresh \in {"loose", "secure"}

VARIABLES
    phase,      \* where each process is
    job,        \* what it is setting up
    control,    \* processes with a control connection to Tor
    tor,        \* Tor's services: where to forward to, and whose they are
    made,       \* the port Tor made a service with, None if it did not yet
    dirs,       \* mode of Home and of each name's directory
    files,      \* mode and content of the two files of each name
    saved,      \* history: the last service saved in full under each name
    asked,      \* history: where Tor was told to forward each service to,
                \* since it started
    unsettled,  \* history: names whose files were last written by a save that
                \* did not get to its end or that another save overlapped
    mixed       \* history: those of them where that save came upon a key, or
                \* another save under way

vars == <<phase, job, control, tor, made, dirs, files, saved, asked, unsettled,
          mixed>>

-----------------------------------------------------------------------------
Kinds   == {"address", "key"}
Reading == {"readAddress", "readKey"}
\* From the opening of the address file to the mode of the key file.
Writing == {"writeAddress", "secureAddress", "openKey", "writeKey", "secureKey"}
Saving  == {"makeHome", "secureHome", "makeDir", "secureDir", "openAddress"}
               \cup Writing
Busy    == {"adding", "asking", "binding"} \cup Reading \cup Saving
Phases  == {"off", "ready", "serving"} \cup Busy
Modes   == {"absent", "loose", "secure"}
File    == [mode : Modes, content : Ids \cup {None}]

Jobs == [kind : {"none", "transient", "create", "load"},
         name : Names \cup {None}, port : Ports \cup {None},
         listen : Ports \cup {None},
         address : Ids \cup {None}, key : Ids \cup {None},
         clean : BOOLEAN, reused : BOOLEAN]

\* clean: no save disturbed what it reads or writes.  reused: Tor had it.
Job(kind, name, port, listen, clean) ==
    [kind |-> kind, name |-> name, port |-> port, listen |-> listen,
     address |-> None, key |-> None, clean |-> clean, reused |-> FALSE]

NoJob == Job("none", None, None, None, FALSE)

TypeOK ==
    /\ phase \in [Procs -> Phases]
    /\ job \in [Procs -> Jobs]
    /\ control \subseteq Procs
    /\ tor \in [Ids -> Service \cup {None}]
    /\ made \in [Ids -> Ports \cup {None}]
    /\ dirs \in [Names \cup {Home} -> Modes]
    /\ files \in [Names -> [Kinds -> File]]
    /\ saved \in [Names -> Ids \cup {None}]
    /\ asked \in [Ids -> SUBSET Ports]
    /\ unsettled \subseteq Names
    /\ mixed \subseteq unsettled
    /\ \A p \in Procs :
        /\ phase[p] \in Saving \cup Reading => job[p].name \in Names
        /\ phase[p] \in {"readKey", "asking", "binding", "serving"} \cup Saving
            => job[p].listen \in Ports /\ job[p].address \in Ids
        /\ phase[p] \in {"asking", "binding", "serving"} \cup Saving
            => job[p].key \in Ids
        /\ phase[p] = "adding" => job[p].listen \in Ports
        /\ phase[p] = "adding" /\ job[p].kind # "load" => job[p].port \in Ports
        /\ phase[p] = "adding" /\ job[p].kind = "load" => job[p].key \in Ids

Init ==
    /\ phase = [p \in Procs |-> "off"]
    /\ job = [p \in Procs |-> NoJob]
    /\ control = {}
    /\ tor = [i \in Ids |-> None]
    /\ made = [i \in Ids |-> None]
    /\ dirs = [d \in Names \cup {Home} |-> "absent"]
    /\ files = [n \in Names |->
                    [k \in Kinds |-> [mode |-> "absent", content |-> None]]]
    /\ saved = [n \in Names |-> None]
    /\ asked = [i \in Ids |-> {}]
    /\ unsettled = {}
    /\ mixed = {}

Goto(p, at) == phase' = [phase EXCEPT ![p] = at]

disk == <<dirs, files, saved, unsettled, mixed>>

-----------------------------------------------------------------------------
(* connect_to_tor and the beginning of create_onion_service. *)

Connect(p) ==
    /\ phase[p] \in {"off", "ready"}
    /\ p \notin control
    /\ Goto(p, "ready")
    /\ control' = control \cup {p}
    /\ UNCHANGED <<job, tor, made, asked, disk>>

\* Without a listen address it is the service port at 127.0.0.1.
ListenAddress(given, port) == IF given = None THEN port ELSE given

\* A transient service, or a new persistent one.
Create(p, kind, name, port, given) ==
    /\ phase[p] = "ready"
    /\ Goto(p, "adding")
    /\ job' = [job EXCEPT ![p] =
                Job(kind, name, port, ListenAddress(given, port), FALSE)]
    /\ UNCHANGED <<control, tor, made, asked, disk>>

\* An existing persistent one.
Load(p, name, given) ==
    /\ phase[p] = "ready"
    /\ Goto(p, "readAddress")
    /\ job' = [job EXCEPT ![p] =
                Job("load", name, None, given, name \notin mixed)]
    /\ UNCHANGED <<control, tor, made, asked, disk>>

\* Tor makes up a key, and adds the service.
AddNew(p) ==
    /\ phase[p] = "adding"
    /\ job[p].kind # "load"
    /\ p \in control
    /\ \E i \in Ids :
        /\ made[i] = None
        /\ made' = [made EXCEPT ![i] = job[p].port]
        /\ tor' = [tor EXCEPT ![i] =
                    [listen |-> job[p].listen,
                     owner |-> IF job[p].kind = "transient" THEN p ELSE None]]
        /\ asked' = [asked EXCEPT ![i] = {job[p].listen}]
        /\ job' = [job EXCEPT ![p].address = i, ![p].key = i]
    /\ Goto(p, IF job[p].kind = "transient" THEN "binding" ELSE "makeHome")
    /\ UNCHANGED <<control, disk>>

-----------------------------------------------------------------------------
(* save_onion_service: a step for each system call.  For the key file the   *)
(* directories are there already.                                           *)

MakeDirectory(p, dir, now, secure, next) ==
    /\ phase[p] = now
    /\ Goto(p, IF dirs[dir] = "absent" THEN secure ELSE next)
    /\ dirs' = [dirs EXCEPT ![dir] = IF @ = "absent" THEN Fresh ELSE @]
    /\ UNCHANGED <<job, control, tor, made, asked, files, saved,
                   unsettled, mixed>>

SecureDirectory(p, dir, now, next) ==
    /\ phase[p] = now
    /\ Goto(p, next)
    /\ dirs' = [dirs EXCEPT ![dir] = "secure"]
    /\ UNCHANGED <<job, control, tor, made, asked, files, saved,
                   unsettled, mixed>>

CreateSecureDirs(p) ==
    \/ MakeDirectory(p, Home, "makeHome", "secureHome", "makeDir")
    \/ SecureDirectory(p, Home, "secureHome", "makeDir")
    \/ MakeDirectory(p, job[p].name, "makeDir", "secureDir", "openAddress")
    \/ SecureDirectory(p, job[p].name, "secureDir", "openAddress")

\* write() first creates or empties the file; a file that is there keeps its
\* mode.
Emptied(file) ==
    [mode |-> IF file.mode = "absent" THEN Fresh ELSE file.mode,
     content |-> None]

\* Others at work on the same files are disturbed by a save, which is not
\* clean itself if another one is under way.
OthersAt(p, phases) ==
    {q \in Procs \ {p} : phase[q] \in phases /\ job[q].name = job[p].name}

\* The new address will lie beside an older key, or a key of somebody else.
Mixing(p) ==
    files[job[p].name].key.content # None \/ OthersAt(p, Writing) # {}

OpenAddress(p) ==
    /\ phase[p] = "openAddress"
    /\ Goto(p, "writeAddress")
    /\ files' = [files EXCEPT ![job[p].name].address = Emptied(@)]
    /\ unsettled' = unsettled \cup {job[p].name}
    /\ mixed' = IF Mixing(p) THEN mixed \cup {job[p].name} ELSE mixed
    /\ job' = [q \in Procs |->
                IF q = p
                THEN [job[q] EXCEPT !.clean = OthersAt(p, Writing) = {}]
                ELSE IF q \in OthersAt(p, Writing \cup Reading)
                THEN [job[q] EXCEPT !.clean = FALSE]
                ELSE job[q]]
    /\ UNCHANGED <<control, tor, made, asked, dirs, saved>>

OpenKey(p) ==
    /\ phase[p] = "openKey"
    /\ Goto(p, "writeKey")
    /\ files' = [files EXCEPT ![job[p].name].key = Emptied(@)]
    /\ UNCHANGED <<job, control, tor, made, asked, dirs, saved,
                   unsettled, mixed>>

\* Mutant: a key that is there is not overwritten.
WriteContentOnce(p, kind, now, next) ==
    /\ phase[p] = now
    /\ Goto(p, next)
    /\ files' = [files EXCEPT ![job[p].name][kind].content =
                    IF kind = "key" /\ saved[job[p].name] # None
                    THEN saved[job[p].name] ELSE job[p][kind]]
    /\ UNCHANGED <<job, control, tor, made, asked, dirs, saved,
                   unsettled, mixed>>

WriteContent(p, kind, now, next) ==
    /\ phase[p] = now
    /\ Goto(p, next)
    /\ files' = [files EXCEPT ![job[p].name][kind].content = job[p][kind]]
    /\ UNCHANGED <<job, control, tor, made, asked, dirs, saved,
                   unsettled, mixed>>

\* Mutant: the address file is left with the mode it was created with.
SecureAddressNot(p) ==
    /\ phase[p] = "secureAddress"
    /\ Goto(p, "openKey")
    /\ UNCHANGED <<job, control, tor, made, asked, disk>>

SecureAddress(p) ==
    /\ phase[p] = "secureAddress"
    /\ Goto(p, "openKey")
    /\ files' = [files EXCEPT ![job[p].name].address.mode = "secure"]
    /\ UNCHANGED <<job, control, tor, made, asked, dirs, saved,
                   unsettled, mixed>>

\* The last step of a save.
SecureKey(p) ==
    /\ phase[p] = "secureKey"
    /\ Goto(p, "binding")
    /\ files' = [files EXCEPT ![job[p].name].key.mode = "secure"]
    /\ IF job[p].clean
       THEN /\ saved' = [saved EXCEPT ![job[p].name] = job[p].key]
            /\ unsettled' = unsettled \ {job[p].name}
            /\ mixed' = mixed \ {job[p].name}
       ELSE UNCHANGED <<saved, unsettled, mixed>>
    /\ UNCHANGED <<job, control, tor, made, asked, dirs>>

Save(p) ==
    \/ CreateSecureDirs(p)
    \/ OpenAddress(p)
    \/ WriteContent(p, "address", "writeAddress", "secureAddress")
    \/ SecureAddress(p)
    \/ OpenKey(p)
    \/ WriteContent(p, "key", "writeKey", "secureKey")
    \/ SecureKey(p)

-----------------------------------------------------------------------------
(* get_onion_address, get_onion_service and use_persistent_onion_service.   *)

\* check_directory and check_file pass, and the content can be parsed.
Usable(name, kind) ==
    /\ dirs[Home] = "secure"
    /\ dirs[name] = "secure"
    /\ files[name][kind].mode = "secure"
    /\ files[name][kind].content # None

\* Mutant: the listen address is left to Tor.
ReadAddressOnly(p) ==
    /\ phase[p] = "readAddress"
    /\ Usable(job[p].name, "address")
    /\ Goto(p, "readKey")
    /\ job' = [job EXCEPT ![p].address = files[job[p].name].address.content]
    /\ UNCHANGED <<control, tor, made, asked, disk>>

ReadAddress(p) ==
    /\ phase[p] = "readAddress"
    /\ Usable(job[p].name, "address")
    /\ Goto(p, "readKey")
    /\ LET address == files[job[p].name].address.content IN
        job' = [job EXCEPT
                    ![p].address = address,
                    ![p].listen = ListenAddress(@, made[address])]
    /\ UNCHANGED <<control, tor, made, asked, disk>>

ReadKey(p) ==
    /\ phase[p] = "readKey"
    /\ Usable(job[p].name, "key")
    /\ Goto(p, "asking")
    /\ job' = [job EXCEPT ![p].key = files[job[p].name].key.content]
    /\ UNCHANGED <<control, tor, made, asked, disk>>

\* GETINFO onions/detached: a service that Tor has is used as it is.
AskTor(p) ==
    /\ phase[p] = "asking"
    /\ p \in control
    /\ LET there == tor[job[p].address] # None /\ tor[job[p].address].owner = None
       IN  /\ Goto(p, IF there THEN "binding" ELSE "adding")
           /\ job' = [job EXCEPT ![p].reused = there]
    /\ UNCHANGED <<control, tor, made, asked, disk>>

\* Mutant: the listen address that was asked for is forgotten.
AddSavedAtDefault(p) ==
    /\ phase[p] = "adding"
    /\ job[p].kind = "load"
    /\ p \in control
    /\ tor[job[p].key] = None
    /\ tor' = [tor EXCEPT ![job[p].key] =
                [listen |-> made[job[p].address], owner |-> None]]
    /\ asked' = [asked EXCEPT ![job[p].key] = @ \cup {made[job[p].address]}]
    /\ Goto(p, "binding")
    /\ UNCHANGED <<job, control, made, disk>>

\* Tor refuses a key it has a service for.
AddSaved(p) ==
    /\ phase[p] = "adding"
    /\ job[p].kind = "load"
    /\ p \in control
    /\ tor[job[p].key] = None
    /\ tor' = [tor EXCEPT ![job[p].key] =
                [listen |-> job[p].listen, owner |-> None]]
    /\ asked' = [asked EXCEPT ![job[p].key] = @ \cup {job[p].listen}]
    /\ Goto(p, "binding")
    /\ UNCHANGED <<job, control, made, disk>>

-----------------------------------------------------------------------------
\* The listener is bound, and create_onion_service returns Ok.
Bind(p) ==
    /\ phase[p] = "binding"
    /\ \A q \in Procs : phase[q] = "serving" => job[q].listen # job[p].listen
    /\ Goto(p, "serving")
    /\ UNCHANGED <<job, control, tor, made, asked, disk>>

\* Any step may fail instead; create_onion_service then returns the error, and
\* what was done so far stays.
Fail(p) ==
    /\ phase[p] \in Busy
    /\ Goto(p, "ready")
    /\ job' = [job EXCEPT ![p] = NoJob]
    /\ UNCHANGED <<control, tor, made, asked, disk>>

\* The process ends, by itself or not (an unwrapped service port that was not
\* given is one way).
End(p) ==
    /\ phase[p] # "off"
    /\ Goto(p, "off")
    /\ job' = [job EXCEPT ![p] = NoJob]
    /\ control' = control \ {p}
    /\ tor' = [i \in Ids |-> IF tor[i] # None /\ tor[i].owner = p
                             THEN None ELSE tor[i]]
    /\ UNCHANGED <<made, asked, disk>>

TorRestarts ==
    /\ control' = {}
    /\ tor' = [i \in Ids |-> None]
    /\ asked' = [i \in Ids |-> {}]
    /\ UNCHANGED <<phase, job, made, disk>>

Start(p) ==
    \/ Connect(p)
    \/ \E given \in Ports \cup {None} :
        \/ \E port \in Ports :
            \/ Create(p, "transient", None, port, given)
            \/ \E n \in Names : Create(p, "create", n, port, given)
        \/ \E n \in Names : Load(p, n, given)

Step(p) ==
    \/ AddNew(p)
    \/ Save(p)
    \/ ReadAddress(p)
    \/ ReadKey(p)
    \/ AskTor(p)
    \/ AddSaved(p)
    \/ Bind(p)

Next == TorRestarts \/ \E p \in Procs : Start(p) \/ Step(p) \/ Fail(p) \/ End(p)

Spec == Init /\ [][Next]_vars

-----------------------------------------------------------------------------
(* Properties *)

\* A service saved in full under a name stays what the files of the name hold,
\* both of them, whatever processes end or fail elsewhere, until the next save
\* under that name opens them.
StoreKeepsSaved ==
    \A n \in Names \ unsettled : \A k \in Kinds :
        /\ files[n][k].content = saved[n]
        /\ files[n][k].mode = IF saved[n] = None THEN "absent" ELSE "secure"

\* The key a process signs with belongs to the id it goes by: also when a save
\* under the name broke off anywhere or is still going on, unless that save came
\* upon the key of an earlier one, or upon another save.
IdentityIsOwn ==
    \A p \in Procs :
        phase[p] \in {"asking", "binding", "serving"} /\ job[p].clean
            => job[p].address = job[p].key

\* As long as Tor runs, connections to the address that was returned get to the
\* listener that was returned.  Of a service that Tor already had this takes that
\* whoever made Tor add it had the listen address of this session, for that one
\* stays in force; of any other, that the key belongs to the id.
ServedIsReachable ==
    \A p \in control :
        /\ phase[p] = "serving"
        /\ IF job[p].reused
           THEN asked[job[p].address] \subseteq {job[p].listen}
           ELSE job[p].address = job[p].key
        => /\ tor[job[p].address] # None
           /\ tor[job[p].address].listen = job[p].listen

\* README.md:39, "Ability to save persistent onion services between sessions":
\* what was saved in full can be read again.  A directory left open between its
\* creation and its chmod is not closed by a later save and refused by every
\* later load: see the run that violates this.
SavedIsUsable ==
    \A n \in Names \ unsettled :
        saved[n] # None => \A k \in Kinds : Usable(n, k)
=============================================================================
