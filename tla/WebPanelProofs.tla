--------------------------- MODULE WebPanelProofs ---------------------------
(***************************************************************************)
(* Proofs about WebPanel, for any number of passwords, tokens, requests    *)
(* and texts of the service file.                                          *)
(***************************************************************************)
EXTENDS WebPanel, TLAPS

USE NoneAssumption, FileAssumption

\* The handlers of requests touch neither the password nor the sessions.
LEMMA HandleFrame == ASSUME NEW r \in Request, Handle(r) PROVE UNCHANGED <<procVars, sessVars>>
BY DEF Handle, SaveServiceOpens, SaveServiceWrites, SaveServiceFails, SaveServiceReloads,
   UninstallStops, UninstallDisables, UninstallRemoves, UninstallReloads,
   UninstallRemovesBinary, StartService, StopService, EnableService, DaemonReload, Build,
   OtherCommand, StepFails

-----------------------------------------------------------------------------
(* Types *)

ProcTypeOK ==
  /\ main \in {"off", "load", "save", "write", "show", "listen", "serve"}
  /\ hash \in Password \cup {None}
  /\ sess \in [Token -> {"none", "live", "expired"}]
  /\ login \in [Token -> Password \cup {None}]
  /\ db \in Password \cup {"none", "torn"}
  /\ unseen \in BOOLEAN
  /\ known \in Password \cup {None}

\* While a password is being saved there is one.
SaveInv == main \in {"save", "write", "show"} => hash \in Password

LEMMA ProcTypeNext == ProcTypeOK /\ SaveInv /\ [Next]_vars => ProcTypeOK' /\ SaveInv'
<1> SUFFICES ASSUME ProcTypeOK, SaveInv, [Next]_vars PROVE ProcTypeOK' /\ SaveInv'
  OBVIOUS
<1> USE DEF ProcTypeOK, SaveInv, procVars, sessVars
<1>1. CASE Start \/ SaveOpens \/ SaveWrites \/ Listen
  BY <1>1 DEF Start, SaveOpens, SaveWrites, Listen
<1>2. CASE LoadDB
  BY <1>2 DEF LoadDB, Exists
<1>3. CASE Show
  BY <1>3 DEF Show
<1>4. CASE Fault
  <2>1. /\ main' = "off" /\ hash' = None
        /\ sess' = [t \in Token |-> "none"] /\ login' = [t \in Token |-> None]
        /\ unseen' = (unseen \/ main = "show")
        /\ UNCHANGED <<db, known>>
    BY <1>4 DEF Fault, Kill
  <2> QED
    BY <2>1
<1>5. CASE DeleteDB
  BY <1>5 DEF DeleteDB
<1>6. ASSUME NEW p \in Password, Login(p) PROVE ProcTypeOK' /\ SaveInv'
  BY <1>6 DEF Login
<1>7. ASSUME NEW t \in Token, Expire(t) \/ Drop(t) PROVE ProcTypeOK' /\ SaveInv'
  BY <1>7 DEF Expire, Drop
<1>8. CASE UNCHANGED <<procVars, sessVars>>
  BY <1>8
<1> HIDE DEF ProcTypeOK, SaveInv, procVars, sessVars
<1> QED
  BY <1>1, <1>2, <1>3, <1>4, <1>5, <1>6, <1>7, <1>8, HandleFrame DEF Next, Main, Auth, vars

-----------------------------------------------------------------------------
(* The password *)

\* A saved password was shown, or is about to be, unless the process was killed
\* in between.
PasswordInv ==
  /\ main = "show" => db = hash
  /\ main \in {"listen", "serve"} => unseen \/ (hash \in Password /\ hash = known)
  /\ db \in Password => unseen \/ db = known \/ main = "show"

PanelInv == ProcTypeOK /\ SaveInv /\ PasswordInv

LEMMA PanelInvInit == Init => PanelInv
BY DEF Init, PanelInv, ProcTypeOK, SaveInv, PasswordInv

LEMMA PanelInvNext == PanelInv /\ [Next]_vars => PanelInv'
<1> SUFFICES ASSUME PanelInv, [Next]_vars PROVE PanelInv'
  OBVIOUS
<1>0. ProcTypeOK /\ ProcTypeOK' /\ SaveInv /\ SaveInv'
  BY ProcTypeNext DEF PanelInv
<1> SUFFICES PasswordInv'
  BY <1>0 DEF PanelInv
<1> USE <1>0 DEF PanelInv, PasswordInv, ProcTypeOK, SaveInv, procVars, sessVars
<1>1. CASE Start \/ SaveOpens \/ SaveWrites \/ Listen
  BY <1>1 DEF Start, SaveOpens, SaveWrites, Listen
<1>2. CASE LoadDB
  BY <1>2 DEF LoadDB, Exists
<1>3. CASE Show
  BY <1>3 DEF Show
<1>4. CASE Fault
  BY <1>4 DEF Fault, Kill
<1>5. CASE DeleteDB
  BY <1>5 DEF DeleteDB
<1>6. ASSUME NEW p \in Password, Login(p) PROVE PasswordInv'
  BY <1>6 DEF Login
<1>7. ASSUME NEW t \in Token, Expire(t) \/ Drop(t) PROVE PasswordInv'
  BY <1>7 DEF Expire, Drop
<1>8. CASE UNCHANGED <<procVars, sessVars>>
  BY <1>8
<1> HIDE DEF PanelInv, PasswordInv, ProcTypeOK, SaveInv, procVars, sessVars
<1> QED
  BY <1>1, <1>2, <1>3, <1>4, <1>5, <1>6, <1>7, <1>8, HandleFrame DEF Next, Main, Auth, vars

\* The panel serves with a password that was shown, whatever crashes, torn
\* files and deletions came before, but for the crash between saving and showing.
THEOREM PasswordShown == Spec => []ServesShownPassword
<1>1. PanelInv => ServesShownPassword
  BY DEF PanelInv, PasswordInv, ServesShownPassword
<1> QED
  BY PanelInvInit, PanelInvNext, <1>1, PTL DEF Spec

-----------------------------------------------------------------------------
(* Login sessions *)

\* Sessions belong to a process that serves, and to its password.
SessionInv ==
  \A t \in Token : sess[t] # "none" => main = "serve" /\ login[t] = hash

LEMMA SessionInvNext == ProcTypeOK /\ SessionInv /\ [Next]_vars => SessionInv'
<1> SUFFICES ASSUME ProcTypeOK, SessionInv, [Next]_vars PROVE SessionInv'
  OBVIOUS
<1> USE DEF ProcTypeOK, SessionInv, procVars, sessVars
<1>1. CASE Start \/ LoadDB \/ SaveOpens \/ SaveWrites \/ Show \/ Listen
  BY <1>1 DEF Start, LoadDB, SaveOpens, SaveWrites, Show, Listen
<1>2. CASE Fault
  BY <1>2 DEF Fault, Kill
<1>3. CASE DeleteDB
  BY <1>3 DEF DeleteDB
<1>4. ASSUME NEW p \in Password, Login(p) PROVE SessionInv'
  BY <1>4 DEF Login
<1>5. ASSUME NEW t \in Token, Expire(t) \/ Drop(t) PROVE SessionInv'
  BY <1>5 DEF Expire, Drop
<1>6. CASE UNCHANGED <<procVars, sessVars>>
  BY <1>6
<1> HIDE DEF ProcTypeOK, SessionInv, procVars, sessVars
<1> QED
  BY <1>1, <1>2, <1>3, <1>4, <1>5, <1>6, HandleFrame DEF Next, Main, Auth, vars

\* Only Auth begins a request.
LEMMA AuthOnly ==
  ASSUME [Next]_vars, NEW r \in Request, pc[r] = "idle", pc'[r] # "idle"
  PROVE  \E t \in Token : Valid(t)
<1>1. CASE \E q \in Request, t \in Token, step \in FirstStep : Auth(q, t, step)
  BY <1>1 DEF Auth
<1>2. ASSUME NEW q \in Request, Handle(q) PROVE FALSE
  <2>1. pc[q] # "idle"
    BY <1>2 DEF Handle, SaveServiceOpens, SaveServiceWrites, SaveServiceFails,
       SaveServiceReloads, UninstallStops, UninstallDisables, UninstallRemoves,
       UninstallReloads, UninstallRemovesBinary, StartService, StopService, EnableService,
       DaemonReload, Build, OtherCommand, StepFails, Command
  <2>2. \E step : Goto(q, step)
    BY <1>2 DEF Handle, SaveServiceOpens, SaveServiceWrites, SaveServiceFails,
       SaveServiceReloads, UninstallStops, UninstallDisables, UninstallRemoves,
       UninstallReloads, UninstallRemovesBinary, StartService, StopService, EnableService,
       DaemonReload, Build, OtherCommand, StepFails, End
  <2> QED
    BY <2>1, <2>2 DEF Goto
<1>3. ASSUME Fault PROVE FALSE
  BY <1>3 DEF Fault, Kill
<1>4. ASSUME UNCHANGED pc PROVE FALSE
  BY <1>4
<1> QED
  BY <1>1, <1>2, <1>3, <1>4
     DEF Next, vars, Main, Start, LoadDB, SaveOpens, SaveWrites, Show, Listen, DeleteDB, Login,
         Expire, Drop

\* A request is let through only for somebody who typed the password in force.
THEOREM LoggedIn == Spec => OnlyLoggedIn
<1>1. Init => PanelInv /\ SessionInv
  BY PanelInvInit DEF Init, SessionInv
<1>2. PanelInv /\ SessionInv /\ [Next]_vars => PanelInv' /\ SessionInv'
  BY PanelInvNext, SessionInvNext DEF PanelInv
<1>3. PanelInv /\ SessionInv /\ [Next]_vars =>
        [\A r \in Request : pc[r] = "idle" /\ pc'[r] # "idle" =>
           \E t \in Token : sess[t] = "live" /\ login[t] = hash]_vars
  BY AuthOnly DEF SessionInv, Valid
<1> QED
  BY <1>1, <1>2, <1>3, PTL DEF Spec, OnlyLoggedIn

-----------------------------------------------------------------------------
(* The service file *)

PcTypeOK == pc \in [Request -> SaveStep \cup UninstallStep \cup Command \cup {"idle"}]

LEMMA PcTypeNext == PcTypeOK /\ [Next]_vars => PcTypeOK'
<1> SUFFICES ASSUME PcTypeOK, [Next]_vars PROVE PcTypeOK'
  OBVIOUS
<1> USE DEF PcTypeOK, SaveStep, UninstallStep, Command
<1>1. CASE Fault
  BY <1>1 DEF Fault, Kill
<1>2. ASSUME NEW r \in Request, NEW t \in Token, NEW step \in FirstStep, Auth(r, t, step)
      PROVE  PcTypeOK'
  BY <1>2 DEF Auth, FirstStep
<1>3. ASSUME NEW r \in Request, Handle(r) PROVE PcTypeOK'
  <2>1. PICK step \in SaveStep \cup UninstallStep \cup {"idle"} : Goto(r, step)
    BY <1>3 DEF Handle, SaveServiceOpens, SaveServiceWrites, SaveServiceFails,
       SaveServiceReloads, UninstallStops, UninstallDisables, UninstallRemoves,
       UninstallReloads, UninstallRemovesBinary, StartService, StopService, EnableService,
       DaemonReload, Build, OtherCommand, StepFails, End
  <2> QED
    BY <2>1 DEF Goto
<1>4. CASE UNCHANGED pc
  BY <1>4
<1> QED
  BY <1>1, <1>2, <1>3, <1>4
     DEF Next, vars, Main, Start, LoadDB, SaveOpens, SaveWrites, Show, Listen, DeleteDB, Login,
         Expire, Drop

LEMMA LoadedNext == PcTypeOK /\ LoadedIsSaved /\ [Next]_vars => LoadedIsSaved'
<1> SUFFICES ASSUME PcTypeOK, LoadedIsSaved, [Next]_vars, Pending' = {}, ~stale'
             PROVE  loaded' = unit'
  BY DEF LoadedIsSaved
<1> USE DEF PcTypeOK, LoadedIsSaved, Pending, fileVars
<1>1. CASE Fault
  BY <1>1 DEF Fault, Kill
<1>2. CASE UNCHANGED <<pc, fileVars>>
  BY <1>2
<1>3. ASSUME NEW r \in Request, NEW t \in Token, NEW step \in FirstStep, Auth(r, t, step)
      PROVE  loaded' = unit'
  BY <1>3 DEF Auth, FirstStep, Command
<1>4. ASSUME NEW r \in Request, Handle(r) PROVE loaded' = unit'
  <2> USE <1>4 DEF Goto, End
  <2>1. CASE SaveServiceOpens(r) \/ SaveServiceWrites(r)
    BY <2>1 DEF SaveServiceOpens, SaveServiceWrites
  <2>2. CASE SaveServiceFails(r)
    BY <2>2 DEF SaveServiceFails
  <2>3. CASE SaveServiceReloads(r) \/ UninstallReloads(r) \/ DaemonReload(r)
    BY <2>3 DEF SaveServiceReloads, UninstallReloads, DaemonReload, ReloadUnits
  <2>4. CASE UninstallStops(r) \/ UninstallDisables(r)
    BY <2>4 DEF UninstallStops, UninstallDisables
  <2>5. CASE UninstallRemoves(r)
    BY <2>5 DEF UninstallRemoves
  <2>6. CASE UninstallRemovesBinary(r) \/ Build(r) \/ StopService(r)
    BY <2>6 DEF UninstallRemovesBinary, Build, StopService
  <2>7. CASE EnableService(r) \/ OtherCommand(r)
    BY <2>7 DEF EnableService, OtherCommand
  <2>8. CASE StartService(r)
    BY <2>8 DEF StartService, StartUnit
  <2>9. CASE StepFails(r)
    BY <2>9 DEF StepFails, Command
  <2> QED
    BY <2>1, <2>2, <2>3, <2>4, <2>5, <2>6, <2>7, <2>8, <2>9 DEF Handle
<1> QED
  BY <1>1, <1>2, <1>3, <1>4
     DEF Next, vars, Main, Start, LoadDB, SaveOpens, SaveWrites, Show, Listen, DeleteDB, Login,
         Expire, Drop

\* However requests and crashes interleave, systemd has the service file as it
\* is, unless a reload is still to come or was missed.
THEOREM LoadedSaved == Spec => []LoadedIsSaved
<1>1. Init => PcTypeOK /\ LoadedIsSaved
  BY DEF Init, PcTypeOK, LoadedIsSaved
<1> QED
  BY <1>1, PcTypeNext, LoadedNext, PTL DEF Spec

-----------------------------------------------------------------------------
(* Uninstalling *)

\* How far an uninstallation that nothing overlaps has come.
AloneInv ==
  \A r \in alone :
    /\ r \in Request
    /\ \A q \in Request \ {r} : pc[q] = "idle"
    /\ pc[r] \in {"un.disable", "un.remove", "un.reload"} => active = "none"
    /\ pc[r] \in {"un.remove", "un.reload"} => enabled = FALSE
    /\ pc[r] = "un.reload" => unit = "none"

\* The first step of a handler is none of the later ones of an uninstallation.
LEMMA AuthStarts ==
  ASSUME PcTypeOK, NEW r \in Request, NEW t \in Token, NEW step \in FirstStep, Auth(r, t, step)
  PROVE  AloneInv'
<1>1. step \notin {"un.disable", "un.remove", "un.reload"}
  BY DEF FirstStep, Command
<1>2. /\ pc' = [pc EXCEPT ![r] = step]
      /\ alone' = IF InFlight = {} THEN {r} ELSE {}
  BY DEF Auth
<1> QED
  BY <1>1, <1>2 DEF AloneInv, PcTypeOK, InFlight

LEMMA AloneNext == PcTypeOK /\ AloneInv /\ [Next]_vars => AloneInv'
<1> SUFFICES ASSUME PcTypeOK, AloneInv, [Next]_vars PROVE AloneInv'
  OBVIOUS
<1>1. CASE Fault
  BY <1>1 DEF Fault, Kill, AloneInv
<1>2. CASE UNCHANGED <<pc, fileVars, sysVars, alone>>
  BY <1>2 DEF AloneInv, fileVars, sysVars
<1>3. ASSUME NEW r \in Request, NEW t \in Token, NEW step \in FirstStep, Auth(r, t, step)
      PROVE  AloneInv'
  BY <1>3, AuthStarts
<1>4. ASSUME NEW r \in Request, Handle(r) PROVE AloneInv'
  <2> USE <1>4 DEF Goto, End, AloneInv, PcTypeOK, fileVars, sysVars
  <2>1. CASE SaveServiceOpens(r) \/ SaveServiceWrites(r) \/ SaveServiceReloads(r)
    BY <2>1 DEF SaveServiceOpens, SaveServiceWrites, SaveServiceReloads
  <2>2. CASE SaveServiceFails(r)
    BY <2>2 DEF SaveServiceFails
  <2>3. CASE UninstallStops(r)
    BY <2>3 DEF UninstallStops
  <2>4. CASE UninstallDisables(r)
    BY <2>4 DEF UninstallDisables
  <2>5. CASE UninstallRemoves(r)
    BY <2>5 DEF UninstallRemoves
  <2>6. CASE UninstallReloads(r)
    BY <2>6 DEF UninstallReloads
  <2>7. CASE UninstallRemovesBinary(r) \/ Build(r) \/ StopService(r)
    BY <2>7 DEF UninstallRemovesBinary, Build, StopService
  <2>8. CASE EnableService(r) \/ OtherCommand(r) \/ DaemonReload(r)
    BY <2>8 DEF EnableService, OtherCommand, DaemonReload
  <2>9. CASE StartService(r)
    BY <2>9 DEF StartService
  <2>10. CASE StepFails(r)
    BY <2>10 DEF StepFails, Command
  <2> QED
    BY <2>1, <2>2, <2>3, <2>4, <2>5, <2>6, <2>7, <2>8, <2>9, <2>10 DEF Handle
<1> QED
  BY <1>1, <1>2, <1>3, <1>4
     DEF Next, vars, Main, Start, LoadDB, SaveOpens, SaveWrites, Show, Listen, DeleteDB, Login,
         Expire, Drop

\* Only its own handler takes a request past the reload.
LEMMA ReloadStep ==
  ASSUME PcTypeOK, AloneInv, [Next]_vars,
         NEW r \in Request, pc[r] = "un.reload", pc'[r] # pc[r], r \in alone'
  PROVE  UninstallReloads(r) /\ r \in alone
<1>1. CASE Fault
  BY <1>1 DEF Fault, Kill
<1>2. CASE UNCHANGED pc
  BY <1>2
<1>3. ASSUME NEW q \in Request, NEW t \in Token, NEW step \in FirstStep, Auth(q, t, step)
      PROVE  FALSE
  BY <1>3 DEF Auth, InFlight, PcTypeOK
<1>4. ASSUME NEW q \in Request, Handle(q) PROVE UninstallReloads(r) /\ r \in alone
  <2>1. \E step : Goto(q, step)
    BY <1>4 DEF Handle, SaveServiceOpens, SaveServiceWrites, SaveServiceFails,
       SaveServiceReloads, UninstallStops, UninstallDisables, UninstallRemoves,
       UninstallReloads, UninstallRemovesBinary, StartService, StopService, EnableService,
       DaemonReload, Build, OtherCommand, StepFails, End
  <2>2. q = r
    BY <2>1 DEF Goto, PcTypeOK
  <2>3. UninstallReloads(r) \/ StepFails(r)
    BY <1>4, <2>2 DEF Handle, SaveServiceOpens, SaveServiceWrites, SaveServiceFails,
       SaveServiceReloads, UninstallStops, UninstallDisables, UninstallRemoves,
       UninstallRemovesBinary, StartService, StopService, EnableService,
       DaemonReload, Build, OtherCommand
  <2> QED
    BY <2>3 DEF StepFails, UninstallReloads
<1> QED
  BY <1>1, <1>2, <1>3, <1>4
     DEF Next, vars, Main, Start, LoadDB, SaveOpens, SaveWrites, Show, Listen, DeleteDB, Login,
         Expire, Drop

\* An uninstallation that nothing overlapped and none of whose commands failed
\* leaves nothing of the service.
THEOREM UninstallComplete == Spec => UninstallLeavesNothing
<1>1. Init => PcTypeOK /\ AloneInv
  BY DEF Init, PcTypeOK, AloneInv
<1>2. PcTypeOK /\ AloneInv /\ [Next]_vars => PcTypeOK' /\ AloneInv'
  BY PcTypeNext, AloneNext
<1>3. PcTypeOK /\ AloneInv /\ [Next]_vars =>
        [\A r \in Request : pc[r] = "un.reload" /\ pc'[r] # pc[r] /\ r \in alone' =>
           /\ {unit', loaded', active'} = {"none"}
           /\ ~enabled']_vars
  <2> SUFFICES ASSUME PcTypeOK, AloneInv, [Next]_vars,
                      NEW r \in Request, pc[r] = "un.reload", pc'[r] # pc[r], r \in alone'
               PROVE  /\ {unit', loaded', active'} = {"none"}
                      /\ ~enabled'
    OBVIOUS
  <2>1. UninstallReloads(r) /\ r \in alone
    BY ReloadStep
  <2>2. unit = "none" /\ active = "none" /\ enabled = FALSE
    BY <2>1 DEF AloneInv
  <2>3. unit' = "none" /\ active' = "none" /\ loaded' = "none" /\ enabled' = FALSE
    BY <2>1, <2>2 DEF UninstallReloads, ReloadUnits, sysVars
  <2> QED
    BY <2>3
<1> QED
  BY <1>1, <1>2, <1>3, PTL DEF Spec, UninstallLeavesNothing

-----------------------------------------------------------------------------
(* The rest of the types *)

SysTypeOK ==
  /\ fd \in SUBSET Request
  /\ unit \in Content
  /\ loaded \in Content
  /\ active \in Unit \cup {"none", "mixed"}
  /\ enabled \in BOOLEAN
  /\ bin \in BOOLEAN
  /\ stale \in BOOLEAN
  /\ alone \in SUBSET Request

LEMMA SysTypeNext == SysTypeOK /\ [Next]_vars => SysTypeOK'
<1> SUFFICES ASSUME SysTypeOK, [Next]_vars PROVE SysTypeOK'
  OBVIOUS
<1> USE DEF SysTypeOK, Content, fileVars, sysVars
<1>1. CASE Fault
  BY <1>1 DEF Fault, Kill
<1>2. CASE UNCHANGED <<fileVars, sysVars, alone>>
  BY <1>2
<1>3. ASSUME NEW r \in Request, NEW t \in Token, NEW step \in FirstStep, Auth(r, t, step)
      PROVE  SysTypeOK'
  BY <1>3 DEF Auth
<1>4. ASSUME NEW r \in Request, Handle(r) PROVE SysTypeOK'
  <2>1. CASE SaveServiceOpens(r) \/ SaveServiceWrites(r)
    BY <2>1 DEF SaveServiceOpens, SaveServiceWrites
  <2>2. CASE SaveServiceFails(r)
    BY <2>2 DEF SaveServiceFails
  <2>3. CASE SaveServiceReloads(r) \/ UninstallReloads(r) \/ DaemonReload(r)
    BY <2>3 DEF SaveServiceReloads, UninstallReloads, DaemonReload, ReloadUnits
  <2>4. CASE UninstallStops(r) \/ UninstallDisables(r) \/ UninstallRemoves(r)
    BY <2>4 DEF UninstallStops, UninstallDisables, UninstallRemoves
  <2>5. CASE UninstallRemovesBinary(r) \/ Build(r) \/ StopService(r)
    BY <2>5 DEF UninstallRemovesBinary, Build, StopService
  <2>6. CASE EnableService(r) \/ OtherCommand(r)
    BY <2>6 DEF EnableService, OtherCommand
  <2>7. CASE StartService(r)
    BY <2>7 DEF StartService, StartUnit
  <2>8. CASE StepFails(r)
    BY <2>8 DEF StepFails
  <2> QED
    BY <1>4, <2>1, <2>2, <2>3, <2>4, <2>5, <2>6, <2>7, <2>8 DEF Handle
<1> QED
  BY <1>1, <1>2, <1>3, <1>4
     DEF Next, vars, Main, Start, LoadDB, SaveOpens, SaveWrites, Show, Listen, DeleteDB, Login,
         Expire, Drop

\* All state of the panel stays in range.
THEOREM TypeCorrect == Spec => []TypeOK
<1>1. Init => ProcTypeOK /\ SaveInv /\ PcTypeOK /\ SysTypeOK
  BY DEF Init, ProcTypeOK, SaveInv, PcTypeOK, SysTypeOK, Content
<1>2. ProcTypeOK /\ PcTypeOK /\ SysTypeOK => TypeOK
  BY DEF TypeOK, ProcTypeOK, PcTypeOK, SysTypeOK
<1> QED
  BY <1>1, <1>2, ProcTypeNext, PcTypeNext, SysTypeNext, PTL DEF Spec
=============================================================================
