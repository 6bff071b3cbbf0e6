------------------------------ MODULE WebPanel ------------------------------
(***************************************************************************)
(* The web panel (t2tunnel/webpanel/panel.go): its process, its password   *)
(* file, its login sessions, and the requests that write, load, start and  *)
(* remove the systemd service of the tunnel.                               *)
(*                                                                         *)
(* net/http serves each request in a goroutine of its own and nothing      *)
(* orders the requests, so their steps interleave: each command run and    *)
(* each system call on a file is a step.  The process may be killed        *)
(* between any two; the files and systemd stay as they are.                *)
(***************************************************************************)
CONSTANTS
  Password,    \* passwords; a name is reused once nobody knows it
  Token,       \* names for session tokens
  Request,     \* slots for requests being handled
  Unit,        \* texts of the service file that handleSaveService accepts
  None         \* the empty string

ASSUME NoneAssumption == None \notin Password
ASSUME FileAssumption == {"none", "torn", "mixed"} \cap (Password \cup Unit) = {}

VARIABLES
  \* the panel's process
  main,        \* where main is; "off": there is no process
  hash,        \* db.PassHash, by the password it is the hash of
  sess,        \* sess[t]: token t in Sessions.m: "none", "live" or "expired"
  login,       \* login[t]: the password that t was given out for
  pc,          \* pc[r]: where the handler of request r is
  fd,          \* the requests whose open file is the service file
  \* what outlives it
  db,          \* panel.db.json
  unit,        \* the service file
  loaded,      \* the service file as systemd read it last
  active,      \* the unit the running tunnel was started with, or "none"
  enabled,     \* whether the service starts at boot
  bin,         \* whether the tunnel's binary is installed
  \* the administrator, and what went wrong
  known,       \* the password that was shown last
  unseen,      \* the process was killed between saving the password in db and
               \* showing it
  stale,       \* a write was not followed by a successful daemon-reload
  alone        \* the request that nothing overlapped and none of whose commands
               \* failed so far, as a set

procVars == <<main, hash, db, known, unseen>>
sessVars == <<sess, login>>
fileVars == <<unit, fd, loaded, stale>>
sysVars == <<active, enabled, bin>>
vars == <<procVars, sessVars, pc, fileVars, sysVars, alone>>

Content == Unit \cup {"none", "torn", "mixed"}

\* The steps of handleSaveService and handleUninstall, and the actions of
\* handleAction ("other": install-deps and the installation of Xray).
SaveStep == {"save.open", "save.write", "save.reload"}
UninstallStep == {"un.stop", "un.disable", "un.remove", "un.reload", "un.binary"}
Command == {"start", "stop", "restart", "enable", "disable", "reload", "build", "other"}

TypeOK ==
  /\ main \in {"off", "load", "save", "write", "show", "listen", "serve"}
  /\ hash \in Password \cup {None}
  /\ sess \in [Token -> {"none", "live", "expired"}]
  /\ login \in [Token -> Password \cup {None}]
  /\ pc \in [Request -> SaveStep \cup UninstallStep \cup Command \cup {"idle"}]
  /\ fd \in SUBSET Request
  /\ db \in Password \cup {"none", "torn"}
  /\ unit \in Content
  /\ loaded \in Content
  /\ active \in Unit \cup {"none", "mixed"}
  /\ {enabled, bin, unseen, stale} \subseteq BOOLEAN
  /\ known \in Password \cup {None}
  /\ alone \in SUBSET Request

\* A machine on which nothing was installed yet.
Init ==
  /\ main = "off"
  /\ hash = None
  /\ sess = [t \in Token |-> "none"]
  /\ login = [t \in Token |-> None]
  /\ pc = [r \in Request |-> "idle"]
  /\ fd = {}
  /\ db = "none"
  /\ unit = "none"
  /\ loaded = "none"
  /\ active = "none"
  /\ enabled = FALSE
  /\ bin = FALSE
  /\ known = None
  /\ unseen = FALSE
  /\ stale = FALSE
  /\ alone = {}

-----------------------------------------------------------------------------
(* main *)

Start ==
  /\ main = "off"
  /\ main' = "load"
  /\ UNCHANGED <<hash, db, known, unseen, sessVars, pc, fileVars, sysVars, alone>>

Exists_AnyFile == db # "none"
\* loadDB finds a file that parses and has a hash.  json.Unmarshal decodes
\* nothing of a file that was cut short.
Exists == db \in Password

LoadDB_RetriesTorn ==
  /\ main = "load"
  /\ db # "torn"
  /\ IF Exists
     THEN hash' = db /\ main' = "listen"
     ELSE hash' \in Password \ {known} /\ main' = "save"
  /\ UNCHANGED <<db, known, unseen, sessVars, pc, fileVars, sysVars, alone>>
\* loadDB; without a password, pw := randHex(9); db.setPassword(pw).  When
\* os.ReadFile fails on a file that is there, that is no password either.
LoadDB ==
  /\ main = "load"
  /\ \E readable \in BOOLEAN :
       IF readable /\ Exists
       THEN /\ hash' = IF db \in Password THEN db ELSE None
            /\ main' = "listen"
       ELSE /\ hash' \in Password \ {known}
            /\ main' = "save"
  /\ UNCHANGED <<db, known, unseen, sessVars, pc, fileVars, sysVars, alone>>

\* db.save(): os.WriteFile empties the file, then writes it.
SaveOpens ==
  /\ main = "save"
  /\ db' = "torn"
  /\ main' = "write"
  /\ unseen' = FALSE
  /\ UNCHANGED <<hash, known, sessVars, pc, fileVars, sysVars, alone>>

SaveWrites ==
  /\ main = "write"
  /\ db' = hash
  /\ main' = "show"
  /\ UNCHANGED <<hash, known, unseen, sessVars, pc, fileVars, sysVars, alone>>

\* printFirstRun: the one time the password is shown.
Show ==
  /\ main = "show"
  /\ known' = hash
  /\ main' = "listen"
  /\ UNCHANGED <<hash, db, unseen, sessVars, pc, fileVars, sysVars, alone>>

Listen ==
  /\ main = "listen"
  /\ main' = "serve"
  /\ UNCHANGED <<hash, db, known, unseen, sessVars, pc, fileVars, sysVars, alone>>

\* The requests that have changed the service file, or are changing it, and
\* have not made systemd read it yet.
Pending == {r \in Request : pc[r] \in {"save.write", "save.reload", "un.reload"}}

\* The process ends, and with it its sessions and its requests.
Kill ==
  /\ main' = "off"
  /\ hash' = None
  /\ sess' = [t \in Token |-> "none"]
  /\ login' = [t \in Token |-> None]
  /\ pc' = [r \in Request |-> "idle"]
  /\ fd' = {}
  /\ unseen' = (unseen \/ main = "show")
  /\ stale' = (stale \/ Pending # {})
  /\ alone' = {}
  /\ UNCHANGED <<db, known, unit, loaded, sysVars>>

\* It is killed; or log.Fatal: db.save() or http.ListenAndServe failed.
Fault ==
  /\ main # "off"
  /\ Kill

\* The administrator, or install.sh, deletes panel.db.json, which a panel that
\* serves does not look at any more.
DeleteDB ==
  /\ main = "off"
  /\ db' = "none"
  /\ unseen' = FALSE
  /\ UNCHANGED <<main, hash, known, sessVars, pc, fileVars, sysVars, alone>>

-----------------------------------------------------------------------------
(* Sessions *)

\* handleLogin: a wrong password changes nothing, and nobody guesses one: the
\* right one is typed only if it was shown.
Login(p) ==
  /\ main = "serve"
  /\ p = hash
  /\ p = known
  /\ \E t \in Token :
       /\ sess[t] = "none"
       /\ sess' = [sess EXCEPT ![t] = "live"]
       /\ login' = [login EXCEPT ![t] = p]
  /\ UNCHANGED <<procVars, pc, fileVars, sysVars, alone>>

\* 8 hours pass.
Expire(t) ==
  /\ sess[t] = "live"
  /\ sess' = [sess EXCEPT ![t] = "expired"]
  /\ UNCHANGED <<procVars, login, pc, fileVars, sysVars, alone>>

\* handleLogout drops the token, and so does valid() when it has expired.
Drop(t) ==
  /\ main = "serve"
  /\ sess[t] # "none"
  /\ sess' = [sess EXCEPT ![t] = "none"]
  /\ login' = [login EXCEPT ![t] = None]
  /\ UNCHANGED <<procVars, pc, fileVars, sysVars, alone>>

Valid_Unexpiring(t) == sess[t] # "none"
Valid(t) == sess[t] = "live"

-----------------------------------------------------------------------------
(* Requests *)

InFlight == {r \in Request : pc[r] # "idle"}

\* auth lets a request through to the first step of its handler.
Auth(r, t, step) ==
  /\ main = "serve"
  /\ pc[r] = "idle"
  /\ Valid(t)
  /\ pc' = [pc EXCEPT ![r] = step]
  /\ alone' = IF InFlight = {} THEN {r} ELSE {}
  /\ UNCHANGED <<procVars, sessVars, fileVars, sysVars>>

\* handleSaveService gets a text that has a [Service] and an ExecStart=, or
\* handleUninstall the parts to remove, or handleAction a known action.
FirstStep == {"save.open", "un.stop", "un.binary"} \cup Command

Goto(r, step) == pc' = [pc EXCEPT ![r] = step]
End(r) == Goto(r, "idle")

\* The service file is opened and emptied.
SaveServiceOpens(r) ==
  /\ pc[r] = "save.open"
  /\ unit' = "torn"
  /\ fd' = fd \cup {r}
  /\ Goto(r, "save.write")
  /\ UNCHANGED <<procVars, sessVars, loaded, stale, sysVars, alone>>

\* The text is written from the start of the file: over a text another request
\* wrote since, of which an end may be left, or into a file that was removed.
SaveServiceWrites(r) ==
  /\ pc[r] = "save.write"
  /\ \E u \in Unit :
       unit' \in IF r \notin fd THEN {unit}
                 ELSE IF unit = "torn" THEN {u} ELSE {u, "mixed"}
  /\ fd' = fd \ {r}
  /\ Goto(r, "save.reload")
  /\ UNCHANGED <<procVars, sessVars, loaded, stale, sysVars, alone>>

\* os.WriteFile fails at its first or its second step, the latter perhaps after
\* it has written a part, over the text another request wrote since: return.
SaveServiceFails(r) ==
  /\ pc[r] \in {"save.open", "save.write"}
  /\ unit' \in IF pc[r] = "save.write" /\ r \in fd /\ unit # "torn"
               THEN {unit, "mixed"} ELSE {unit}
  /\ fd' = fd \ {r}
  /\ stale' = (stale \/ pc[r] = "save.write")
  /\ End(r)
  /\ alone' = alone \ {r}
  /\ UNCHANGED <<procVars, sessVars, loaded, sysVars>>

\* systemctl daemon-reload
ReloadUnits ==
  /\ loaded' = unit
  /\ stale' = FALSE

\* run("systemctl", "daemon-reload"), and the answer.
SaveServiceReloads(r) ==
  /\ pc[r] = "save.reload"
  /\ ReloadUnits
  /\ End(r)
  /\ UNCHANGED <<procVars, sessVars, unit, fd, sysVars, alone>>

UninstallStops_NotDisabling(r) ==
  /\ pc[r] = "un.stop"
  /\ active' = "none"
  /\ Goto(r, "un.remove")
  /\ UNCHANGED <<procVars, sessVars, fileVars, enabled, bin, alone>>
\* systemctl stop
UninstallStops(r) ==
  /\ pc[r] = "un.stop"
  /\ active' = "none"
  /\ Goto(r, "un.disable")
  /\ UNCHANGED <<procVars, sessVars, fileVars, enabled, bin, alone>>

\* systemctl disable may fail to undo an enable if the service file is gone.
UninstallDisables(r) ==
  /\ pc[r] = "un.disable"
  /\ unit # "none" \/ ~enabled
  /\ enabled' = FALSE
  /\ Goto(r, "un.remove")
  /\ UNCHANGED <<procVars, sessVars, fileVars, active, bin, alone>>

UninstallRemoves(r) ==
  /\ pc[r] = "un.remove"
  /\ unit' = "none"
  /\ fd' = {}
  /\ Goto(r, "un.reload")
  /\ UNCHANGED <<procVars, sessVars, loaded, stale, sysVars, alone>>

UninstallReloads_Skipped(r) ==
  /\ pc[r] = "un.reload"
  /\ Goto(r, "un.binary") \/ End(r)
  /\ UNCHANGED <<procVars, sessVars, fileVars, sysVars, alone>>
\* in.Binary is looked at once the service is done.
UninstallReloads(r) ==
  /\ pc[r] = "un.reload"
  /\ ReloadUnits
  /\ Goto(r, "un.binary") \/ End(r)
  /\ UNCHANGED <<procVars, sessVars, unit, fd, sysVars, alone>>

\* os.Remove(*flagBin).  What in.Build removes is nobody's input here.
UninstallRemovesBinary(r) ==
  /\ pc[r] = "un.binary"
  /\ bin' = FALSE
  /\ End(r)
  /\ UNCHANGED <<procVars, sessVars, fileVars, active, enabled, alone>>

\* What systemctl start reads: the file, if it has no unit of that name.
StartUnit == IF loaded = "none" THEN unit ELSE loaded

\* systemctl start of a service that does not run, or systemctl restart.  The
\* tunnel does not stay up without its binary.
StartService(r) ==
  /\ \/ pc[r] = "start" /\ active = "none"
     \/ pc[r] = "restart"
  /\ StartUnit \in Unit \cup {"mixed"}
  /\ active' = IF bin THEN StartUnit ELSE "none"
  /\ loaded' = StartUnit
  /\ End(r)
  /\ UNCHANGED <<procVars, sessVars, unit, fd, stale, enabled, bin, alone>>

StopService(r) ==
  /\ pc[r] = "stop"
  /\ active' = "none"
  /\ End(r)
  /\ UNCHANGED <<procVars, sessVars, fileVars, enabled, bin, alone>>

\* systemctl enable or disable, for which there has to be a service file.
EnableService(r) ==
  /\ pc[r] \in {"enable", "disable"}
  /\ unit # "none"
  /\ enabled' = (pc[r] = "enable")
  /\ End(r)
  /\ UNCHANGED <<procVars, sessVars, fileVars, active, bin, alone>>

DaemonReload(r) ==
  /\ pc[r] = "reload"
  /\ ReloadUnits
  /\ End(r)
  /\ UNCHANGED <<procVars, sessVars, unit, fd, sysVars, alone>>

\* go build and install.
Build(r) ==
  /\ pc[r] = "build"
  /\ bin' = TRUE
  /\ End(r)
  /\ UNCHANGED <<procVars, sessVars, fileVars, active, enabled, alone>>

\* A command that changes nothing here.
OtherCommand(r) ==
  /\ \/ pc[r] = "other"
     \/ pc[r] = "start" /\ active # "none"
  /\ End(r)
  /\ UNCHANGED <<procVars, sessVars, fileVars, sysVars, alone>>

\* A command or a removal fails: nobody looks, and the handler goes on.
StepFails(r) ==
  /\ \/ pc[r] = "un.stop" /\ Goto(r, "un.disable")
     \/ pc[r] = "un.disable" /\ Goto(r, "un.remove")
     \/ pc[r] = "un.remove" /\ Goto(r, "un.reload")
     \/ pc[r] = "un.reload" /\ (Goto(r, "un.binary") \/ End(r))
     \/ pc[r] \in {"save.reload", "un.binary"} \cup Command /\ End(r)
  /\ stale' = (stale \/ pc[r] \in {"save.reload", "un.reload"})
  /\ alone' = alone \ {r}
  /\ UNCHANGED <<procVars, sessVars, unit, fd, loaded, sysVars>>

Main == Start \/ LoadDB \/ SaveOpens \/ SaveWrites \/ Show \/ Listen

Handle(r) ==
  \/ SaveServiceOpens(r) \/ SaveServiceWrites(r) \/ SaveServiceFails(r)
  \/ SaveServiceReloads(r)
  \/ UninstallStops(r) \/ UninstallDisables(r) \/ UninstallRemoves(r)
  \/ UninstallReloads(r) \/ UninstallRemovesBinary(r)
  \/ StartService(r) \/ StopService(r) \/ EnableService(r) \/ DaemonReload(r)
  \/ Build(r) \/ OtherCommand(r) \/ StepFails(r)

Next ==
  \/ Main \/ Fault \/ DeleteDB
  \/ \E p \in Password : Login(p)
  \/ \E t \in Token : Expire(t) \/ Drop(t)
  \/ \E r \in Request, t \in Token, step \in FirstStep : Auth(r, t, step)
  \/ \E r \in Request : Handle(r)

Spec == Init /\ [][Next]_vars

\* main runs, and the administrator starts the panel again when it has ended.
FairSpec == Spec /\ WF_vars(Main)

-----------------------------------------------------------------------------
(* Properties *)

\* A panel that serves has shown its password to the administrator, however
\* often it was killed before, unless it was killed after the password was
\* saved and before it was shown.
ServesShownPassword == main = "serve" => unseen \/ (hash \in Password /\ hash = known)

\* "to reset: delete the file and restart": without a password file, or with
\* one that a crash cut short, the panel comes up with a password that was
\* shown, unless it keeps being killed or is killed right before showing it.
ResetRecovers ==
  \/ []<><<Fault>>_vars
  \/ (main = "off" /\ db \notin Password) ~> (unseen \/ (main = "serve" /\ hash = known))

\* A request is let through only while somebody is logged in who typed the
\* password in force: no session outlives its 8 hours, a logout, or the
\* process, and so none outlives the password.
OnlyLoggedIn ==
  [][\A r \in Request : pc[r] = "idle" /\ pc'[r] # "idle" =>
       \E t \in Token : sess[t] = "live" /\ login[t] = hash]_vars

\* However saves, removals, reloads and starts interleave, what systemd has
\* loaded, and would start, is the service file as it is, unless a request is
\* still to reload it or a daemon-reload failed or was never reached.
LoadedIsSaved == Pending = {} /\ ~stale => loaded = unit

\* An uninstallation that no other request overlapped and whose commands
\* succeeded leaves no service: not running, not enabled, no file, not loaded.
UninstallLeavesNothing ==
  [][\A r \in Request : pc[r] = "un.reload" /\ pc'[r] # pc[r] /\ r \in alone' =>
       /\ {unit', loaded', active'} = {"none"}
       /\ ~enabled']_vars
=============================================================================
