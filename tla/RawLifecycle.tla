---------------------------- MODULE RawLifecycle ----------------------------
(***************************************************************************)
(* The life of a tunnel process in raw mode: main of t2tunnel/engine.go    *)
(* with AutoDiscover of autodiscover.go and the IPTablesManager of         *)
(* iptables.go.                                                            *)
(*                                                                         *)
(* The kernel's iptables rules outlive the process.  main adds them before *)
(* it installs its signal handler and before it validates its flags, the   *)
(* handler removes them in a goroutine beside main, and log.Fatal, a       *)
(* return from main and a crash remove nothing.  The service is started    *)
(* again (Restart=always in the unit that panel.html writes), one process  *)
(* at a time.                                                              *)
(***************************************************************************)
EXTENDS Naturals, AutoDiscover

CONSTANTS
  NRules,      \* len(m.rules) (3)
  MaxFaults    \* bound: failures of iptables -C and -D for one rule

ASSUME NRulesAssumption == NRules \in Nat \ {0}
ASSUME MaxFaultsAssumption == MaxFaults \in Nat

Rule == 1 .. NRules

VARIABLES
  autoIPT,     \* !*noAutoIPT && *srcPort != 0
  rules,       \* rules[r]: copies of rule r in the kernel
  main,        \* where the goroutine main is; "off": there is no process
  r,           \* the rule Apply is at
  apply,       \* what Apply returned: "nil", "error", or nothing so far
  handler,     \* the signal goroutine: "none", "waiting" or "cleanup"
  c,           \* the rule Cleanup is at
  exit,        \* how the last process ended
  faults       \* faults[x]: how often iptables -C or -D failed for rule x so far

vars == <<netVars, autoIPT, rules, main, r, apply, handler, c, exit, faults>>

Discovering == {"route", "interface", "neigh", "ping", "neighAgain"}

TypeOK ==
  /\ DiscoverTypeOK
  /\ autoIPT \in BOOLEAN
  /\ rules \in [Rule -> Nat]
  /\ main \in Discovering \cup {"off", "check", "add", "notify", "validate", "run"}
  /\ r \in 1 .. NRules + 1
  /\ apply \in {"pending", "nil", "error"}
  /\ handler \in {"none", "waiting", "cleanup"}
  /\ c \in 1 .. NRules + 1
  /\ exit \in {"none", "clean", "dirty"}
  /\ faults \in [Rule -> 0 .. MaxFaults]

\* An operator may have added rules by hand, as the warning of main suggests.
Init ==
  /\ DiscoverInit
  /\ autoIPT \in BOOLEAN
  /\ rules \in [Rule -> 0 .. 1]
  /\ main = "off"
  /\ r = 1
  /\ apply = "pending"
  /\ handler = "none"
  /\ c = 1
  /\ exit = "none"
  /\ faults = [x \in Rule |-> 0]

\* The process is gone, with all its goroutines and variables.
Die(how) ==
  /\ main' = "off"
  /\ r' = 1
  /\ apply' = "pending"
  /\ handler' = "none"
  /\ c' = 1
  /\ exit' = how
  /\ param' = Unset
  /\ ni' = Unset
  /\ neigh' = "none"
  /\ UNCHANGED <<given, autoIPT>>

\* What main does not touch before Apply.
aside == <<given, autoIPT, rules, r, apply, handler, c, exit, faults>>

-----------------------------------------------------------------------------
(* main *)

\* Where main goes with its parameters: Apply, or without it the validation.
Prepared == main' = IF autoIPT THEN "check" ELSE "validate"

\* The service is started with a key and -dstip.
Start ==
  /\ main = "off"
  /\ ParseFlags
  /\ IF given = Param THEN Prepared ELSE main' = "route"
  /\ UNCHANGED <<ni, neigh, aside>>

\* A check before AutoDiscover fails: log.Fatal.
StartFails ==
  /\ main = "off"
  /\ exit' = "dirty"
  /\ UNCHANGED <<netVars, autoIPT, rules, main, r, apply, handler, c, faults>>

\* ip route get names the interface, the local address and the gateway.
FindRoute ==
  /\ main = "route"
  /\ \E words \in SUBSET {"via", "dev", "src"} :
       /\ RouteUsable(words)
       /\ ni' = Route(words)
  /\ main' = "interface"
  /\ UNCHANGED <<param, neigh, aside>>

\* net.InterfaceByName; the interface may have no hardware address.
FindInterface ==
  /\ main = "interface"
  /\ \E mac \in {"", "found"} : ni' = [ni EXCEPT !["srcMAC"] = mac]
  /\ main' = "neigh"
  /\ UNCHANGED <<param, neigh, aside>>

\* The gateway's address is found, and AutoDiscover returns.
FindGateway ==
  /\ main \in {"neigh", "neighAgain"}
  /\ \E ipWorks \in BOOLEAN :
       /\ ReadNeighMAC(ipWorks) # ""
       /\ ni' = [ni EXCEPT !["gwMAC"] = ReadNeighMAC(ipWorks)]
       /\ FillIn(ni')
  /\ Prepared
  /\ UNCHANGED <<neigh, aside>>

MissGateway ==
  /\ main = "neigh"
  /\ ArpMAC = ""
  /\ main' = "ping"
  /\ UNCHANGED <<param, ni, neigh, aside>>

\* ping returns, or its second is over: whatever came of it is in the table.
Ping ==
  /\ main = "ping"
  /\ main' = "neighAgain"
  /\ UNCHANGED <<param, ni, neigh, aside>>

\* AutoDiscover returns an error: log.Fatal, nothing was added to iptables.
DiscoverFails ==
  /\ \/ main \in {"route", "interface"}
     \/ main = "neighAgain" /\ ArpMAC = ""
  /\ Die("dirty")
  /\ UNCHANGED <<rules, faults>>

\* The kernel resolves the gateway, fails to, or forgets it.
NeighChanges ==
  /\ main \in Discovering
  /\ neigh' \in Neigh \ {neigh}
  /\ UNCHANGED <<main, param, ni, aside>>

ApplyDone_OneShort == r = NRules
ApplyDone == r = NRules + 1

Present_NotChecked == FALSE
\* iptables -C finds the rule.
Present == rules[r] > 0

\* continue: the rule is there already.
CheckFinds ==
  /\ main = "check"
  /\ ~ApplyDone
  /\ Present
  /\ r' = r + 1
  /\ UNCHANGED <<netVars, autoIPT, rules, main, apply, handler, c, exit, faults>>

CheckMisses ==
  /\ main = "check"
  /\ ~ApplyDone
  /\ ~Present
  /\ main' = "add"
  /\ UNCHANGED <<netVars, autoIPT, rules, r, apply, handler, c, exit, faults>>

\* iptables -C or -D fails for rule x for a reason of its own.
Fails(x) ==
  /\ faults[x] < MaxFaults
  /\ faults' = [faults EXCEPT ![x] = @ + 1]

\* iptables -C fails for another reason, such as another process holding the
\* xtables lock; Apply takes it for the absence of the rule.
CheckErrs ==
  /\ main = "check"
  /\ ~ApplyDone
  /\ Fails(r)
  /\ main' = "add"
  /\ UNCHANGED <<netVars, autoIPT, rules, r, apply, handler, c, exit>>

\* iptables -A appends a copy of the rule.
Add ==
  /\ main = "add"
  /\ rules' = [rules EXCEPT ![r] = @ + 1]
  /\ r' = r + 1
  /\ main' = "check"
  /\ UNCHANGED <<netVars, autoIPT, apply, handler, c, exit, faults>>

\* iptables -A fails: Apply returns an error, main warns and goes on.
AddFails ==
  /\ main = "add"
  /\ apply' = "error"
  /\ main' = "notify"
  /\ UNCHANGED <<netVars, autoIPT, rules, r, handler, c, exit, faults>>

ApplyReturns ==
  /\ main = "check"
  /\ ApplyDone
  /\ apply' = "nil"
  /\ main' = "notify"
  /\ UNCHANGED <<netVars, autoIPT, rules, r, handler, c, exit, faults>>

\* signal.Notify and the start of the goroutine that waits for the signal.
Notify ==
  /\ main = "notify"
  /\ handler' = "waiting"
  /\ main' = "validate"
  /\ UNCHANGED <<netVars, autoIPT, rules, r, apply, c, exit, faults>>

RawValid == \A p \in {"srcMAC", "gwMAC", "srcIP"} : param[p] # ""

\* The switch on -mode and -transport: rawValid(), -target and -listen hold.
Validate ==
  /\ main = "validate"
  /\ RawValid
  /\ main' = "run"
  /\ UNCHANGED <<netVars, autoIPT, rules, r, apply, handler, c, exit, faults>>

\* log.Fatal: the flags are not valid, or runServerRaw or runClientRaw cannot
\* listen; or main returns because runServerRaw does.
MainEnds ==
  /\ main \in {"validate", "run"}
  /\ Die("dirty")
  /\ UNCHANGED <<rules, faults>>

-----------------------------------------------------------------------------
(* Signals *)

\* SIGINT or SIGTERM before signal.Notify, or SIGKILL, or a crash.
Killed ==
  /\ main # "off"
  /\ Die("dirty")
  /\ UNCHANGED <<rules, faults>>

\* The goroutine receives the signal and calls Cleanup; main goes on.
Signal ==
  /\ handler = "waiting"
  /\ handler' = "cleanup"
  /\ UNCHANGED <<netVars, autoIPT, rules, main, r, apply, c, exit, faults>>

\* iptables -D removes one copy of the rule, if there is one.
Delete ==
  /\ handler = "cleanup"
  /\ c <= NRules
  /\ rules' = [rules EXCEPT ![c] = IF @ > 0 THEN @ - 1 ELSE 0]
  /\ c' = c + 1
  /\ UNCHANGED <<netVars, autoIPT, main, r, apply, handler, exit, faults>>

\* iptables -D fails: Cleanup does not look.
DeleteFails ==
  /\ handler = "cleanup"
  /\ c <= NRules
  /\ Fails(c)
  /\ c' = c + 1
  /\ UNCHANGED <<netVars, autoIPT, rules, main, r, apply, handler, exit>>

HandlerExits_OneShort ==
  /\ handler = "cleanup"
  /\ c >= NRules
  /\ Die("clean")
  /\ UNCHANGED <<rules, faults>>
\* The rules are reported removed; os.Exit(0).
HandlerExits ==
  /\ handler = "cleanup"
  /\ c > NRules
  /\ Die("clean")
  /\ UNCHANGED <<rules, faults>>

Next ==
  \/ Start \/ StartFails
  \/ FindRoute \/ FindInterface \/ FindGateway \/ MissGateway \/ Ping \/ DiscoverFails
  \/ NeighChanges
  \/ CheckFinds \/ CheckMisses \/ CheckErrs \/ Add \/ AddFails \/ ApplyReturns
  \/ Notify \/ Validate \/ MainEnds
  \/ Killed \/ Signal \/ Delete \/ DeleteFails \/ HandlerExits

Spec == Init /\ [][Next]_vars

-----------------------------------------------------------------------------
(* Properties *)

\* A tunnel that runs has all its parameters, the interface included, which
\* rawValid() does not look at: each is the one given, if one was, and the
\* gateway's address is not that of an entry the kernel is still resolving.
RunsConfigured ==
  main = "run" =>
    \A p \in Param : param[p] = IF p \in given THEN "given" ELSE "found"

\* While the tunnel runs with its rules applied and was not told to stop, every
\* rule is in the kernel: no earlier process, however it ended, takes one away.
RunsProtected ==
  main = "run" /\ apply = "nil" /\ handler = "waiting"
    => \A x \in Rule : rules[x] > 0

\* Crashes and restarts do not pile rules up: each is there once at most, and
\* once more for each time that iptables -C or -D failed for it, however often
\* the process was started since.
NoDuplicates == \A x \in Rule : rules[x] <= 1 + faults[x]

\* When the handler has reported the rules removed and the process has ended, no
\* copy of a rule is left, not even of processes that crashed before, but for
\* one for each failure of iptables -C or -D for it.
CleanExitLeavesNothing ==
  main = "off" /\ exit = "clean" => \A x \in Rule : rules[x] <= faults[x]
=============================================================================
