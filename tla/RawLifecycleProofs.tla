------------------------- MODULE RawLifecycleProofs -------------------------
(***************************************************************************)
(* Proofs about RawLifecycle, for any number of rules.                     *)
(***************************************************************************)
EXTENDS RawLifecycle, TLAPS

USE NRulesAssumption, MaxFaultsAssumption DEF Rule

\* The states before Apply.
Starting == {"off", "route", "interface", "neigh", "ping", "neighAgain"}

\* The handler exists only when main is past Apply, so that Apply and Cleanup
\* never run at once.
HandlerInv ==
  /\ handler # "none" => main \in {"validate", "run"}
  /\ main \in Starting => r = 1
  /\ main = "add" => r <= NRules
  /\ apply = "nil" => main \in {"notify", "validate", "run"}
  /\ handler # "cleanup" => c = 1

\* The rules Apply has passed are in the kernel, and stay there until the
\* handler begins to clean up.
PassedInv ==
  /\ main \in {"check", "add"} => \A x \in Rule : x < r => rules[x] > 0
  /\ apply = "nil" /\ handler # "cleanup" => \A x \in Rule : rules[x] > 0

IInv == TypeOK /\ HandlerInv /\ PassedInv

LEMMA DiscoverTypeInit == Init => DiscoverTypeOK
BY DEF Init, DiscoverInit, DiscoverTypeOK, Unset, Value, Neigh

LEMMA IInvInit == Init => IInv
<1> SUFFICES ASSUME Init PROVE IInv
  OBVIOUS
<1>1. rules \in [Rule -> Nat]
  <2>1. 0 .. 1 \subseteq Nat
    OBVIOUS
  <2>2. rules \in [Rule -> 0 .. 1]
    BY DEF Init
  <2> QED
    BY <2>1, <2>2
<1> QED
  BY <1>1, DiscoverTypeInit DEF Init, IInv, TypeOK, HandlerInv, PassedInv

LEMMA DiscoverTypeNext == DiscoverTypeOK /\ [Next]_vars => DiscoverTypeOK'
<1> SUFFICES ASSUME DiscoverTypeOK, [Next]_vars PROVE DiscoverTypeOK'
  OBVIOUS
<1>0. /\ given \in SUBSET Param /\ neigh \in Neigh
      /\ param \in [Param -> Value] /\ ni \in [Param -> Value]
      /\ Unset \in [Param -> Value]
      /\ "" \in Value /\ "given" \in Value /\ "found" \in Value /\ "none" \in Neigh
  BY DEF DiscoverTypeOK, Unset, Value, Neigh
<1> USE <1>0 DEF DiscoverTypeOK, aside
<1>1. CASE Start
  BY <1>1 DEF Start, ParseFlags
<1>2. CASE FindRoute
  <2>1. PICK words \in SUBSET {"via", "dev", "src"} : ni' = Route(words)
    BY <1>2 DEF FindRoute
  <2>2. PICK a \in Value, b \in Value : ni' = [Unset EXCEPT !["iface"] = a, !["srcIP"] = b]
    <3>1. CASE "dev" \in words /\ "src" \in words
      BY <2>1, <3>1 DEF Route
    <3>2. CASE "dev" \in words /\ "src" \notin words
      BY <2>1, <3>2 DEF Route
    <3>3. CASE "dev" \notin words /\ "src" \in words
      BY <2>1, <3>3 DEF Route
    <3>4. CASE "dev" \notin words /\ "src" \notin words
      BY <2>1, <3>4 DEF Route
    <3> QED
      BY <3>1, <3>2, <3>3, <3>4
  <2>3. ni' \in [Param -> Value]
    BY <2>2
  <2> QED
    BY <1>2, <2>3 DEF FindRoute
<1>3. CASE FindInterface
  <2>1. PICK mac \in Value : ni' = [ni EXCEPT !["srcMAC"] = mac]
    BY <1>3 DEF FindInterface
  <2>2. ni' \in [Param -> Value]
    BY <2>1
  <2> QED
    BY <1>3, <2>2 DEF FindInterface
<1>4. CASE MissGateway \/ Ping \/ NeighChanges
  BY <1>4 DEF MissGateway, Ping, NeighChanges
<1>5. CASE FindGateway
  <2>1. ni' = [ni EXCEPT !["gwMAC"] = "found"] /\ FillIn(ni') /\ UNCHANGED <<given, neigh>>
    BY <1>5 DEF FindGateway, ReadNeighMAC, ArpMAC
  <2>2. ni' \in [Param -> Value]
    BY <2>1
  <2> QED
    BY <2>1, <2>2 DEF FillIn
<1>6. CASE DiscoverFails \/ MainEnds \/ Killed \/ HandlerExits
  BY <1>6 DEF DiscoverFails, MainEnds, Killed, HandlerExits, Die
<1>7. CASE UNCHANGED netVars
  BY <1>7 DEF netVars
<1> QED
  BY <1>1, <1>2, <1>3, <1>4, <1>5, <1>6, <1>7
     DEF Next, vars, StartFails, CheckFinds, CheckMisses, CheckErrs, Add, AddFails,
         ApplyReturns, Notify, Validate, Signal, Delete, DeleteFails

\* A failure is counted for its rule and for no other.
LEMMA FailsFacts ==
  ASSUME faults \in [Rule -> 0 .. MaxFaults], NEW x \in Rule, Fails(x)
  PROVE  /\ faults' \in [Rule -> 0 .. MaxFaults]
         /\ faults'[x] = faults[x] + 1
         /\ \A y \in Rule : /\ faults[y] \in Nat /\ faults'[y] \in Nat
                           /\ faults[y] <= faults'[y]
BY DEF Fails

LEMMA IInvNext == IInv /\ [Next]_vars => IInv'
<1> SUFFICES ASSUME IInv, [Next]_vars PROVE IInv'
  OBVIOUS
<1>0. DiscoverTypeOK'
  BY DiscoverTypeNext DEF IInv, TypeOK
<1> USE <1>0 DEF IInv, TypeOK, HandlerInv, PassedInv, Starting, Discovering, aside
<1>1. CASE Start \/ StartFails
  BY <1>1 DEF Start, StartFails, Prepared
<1>11. CASE FindRoute \/ FindInterface \/ MissGateway \/ Ping \/ NeighChanges
  BY <1>11 DEF FindRoute, FindInterface, MissGateway, Ping, NeighChanges
<1>12. CASE FindGateway
  <2>1. /\ main \in {"neigh", "neighAgain"} /\ main' \in {"check", "validate"}
        /\ UNCHANGED aside
    BY <1>12 DEF FindGateway, Prepared
  <2>2. r = 1 /\ handler = "none" /\ apply # "nil"
    BY <2>1
  <2> QED
    BY <2>1, <2>2
<1>13. CASE DiscoverFails
  BY <1>13 DEF DiscoverFails, Die
<1>2. CASE CheckFinds
  BY <1>2 DEF CheckFinds, ApplyDone, Present
<1>3. CASE CheckMisses
  BY <1>3 DEF CheckMisses, ApplyDone
<1>14. CASE CheckErrs
  <2>1. r \in Rule /\ Fails(r)
    BY <1>14 DEF CheckErrs, ApplyDone
  <2>2. faults' \in [Rule -> 0 .. MaxFaults]
    BY <2>1, FailsFacts
  <2>3. /\ main = "check" /\ main' = "add" /\ r <= NRules
        /\ UNCHANGED <<autoIPT, rules, r, apply, handler, c, exit>>
    BY <1>14 DEF CheckErrs, ApplyDone
  <2>4. TypeOK'
    BY <2>2, <2>3
  <2>5. HandlerInv' /\ PassedInv'
    BY <2>3
  <2> QED
    BY <2>4, <2>5
<1>4. CASE Add
  BY <1>4 DEF Add
<1>5. CASE AddFails \/ Notify \/ Validate
  BY <1>5 DEF AddFails, Notify, Validate
<1>6. CASE ApplyReturns
  BY <1>6 DEF ApplyReturns, ApplyDone
<1>7. CASE MainEnds \/ Killed \/ HandlerExits
  BY <1>7 DEF MainEnds, Killed, HandlerExits, Die
<1>8. CASE Signal
  BY <1>8 DEF Signal
<1>15. CASE DeleteFails
  <2>1. faults' \in [Rule -> 0 .. MaxFaults]
    BY <1>15, FailsFacts DEF DeleteFails
  <2> QED
    BY <1>15, <2>1 DEF DeleteFails
<1>9. CASE Delete
  BY <1>9 DEF Delete
<1>10. CASE UNCHANGED vars
  BY <1>10 DEF vars
<1> HIDE DEF IInv
<1> QED
  BY <1>1, <1>11, <1>12, <1>13, <1>14, <1>15, <1>2, <1>3, <1>4, <1>5, <1>6, <1>7, <1>8, <1>9,
     <1>10 DEF Next

\* A running tunnel whose Apply succeeded has all its rules, whatever happened
\* to the processes before it and even if iptables fails at times.
THEOREM Protected == Spec => [](TypeOK /\ RunsProtected)
<1>1. IInv => TypeOK /\ RunsProtected
  BY DEF IInv, PassedInv, RunsProtected
<1> QED
  BY IInvInit, IInvNext, <1>1, PTL DEF Spec

-----------------------------------------------------------------------------
(* The parameters *)

\* What AutoDiscover has found so far, and what main has after it: only the
\* hardware address of the interface may still be missing.
ConfigInv ==
  /\ main \in Discovering => param = [p \in Param |-> IF p \in given THEN "given" ELSE ""]
  /\ main \in Discovering \ {"route"} => ni["iface"] = "found" /\ ni["srcIP"] = "found"
  /\ main \in {"neigh", "ping", "neighAgain"} => ni["srcMAC"] \in {"", "found"}
  /\ main \in {"check", "add", "notify", "validate", "run"} =>
       \A p \in Param : \/ param[p] = (IF p \in given THEN "given" ELSE "found")
                        \/ p = "srcMAC" /\ param[p] = ""
  /\ main = "run" => RawValid

LEMMA ConfigInvNext == DiscoverTypeOK /\ ConfigInv /\ [Next]_vars => ConfigInv'
<1> SUFFICES ASSUME DiscoverTypeOK, ConfigInv, [Next]_vars PROVE ConfigInv'
  OBVIOUS
<1>0. given \in SUBSET Param /\ param \in [Param -> Value] /\ ni \in [Param -> Value]
  BY DEF DiscoverTypeOK
<1> USE DEF ConfigInv, Param, Discovering, aside
<1>1. CASE Start
  BY <1>1 DEF Start, ParseFlags, Prepared
<1>2. CASE FindRoute
  BY <1>2 DEF FindRoute, Route, RouteUsable, Unset
<1>3. CASE FindInterface
  BY <1>0, <1>3 DEF FindInterface
<1>4. CASE MissGateway \/ Ping \/ NeighChanges
  BY <1>4 DEF MissGateway, Ping, NeighChanges
<1>5. CASE FindGateway
  <2>1. ni' = [ni EXCEPT !["gwMAC"] = "found"] /\ FillIn(ni')
    BY <1>5 DEF FindGateway, ReadNeighMAC, ArpMAC
  <2>2. /\ ni'["iface"] = "found" /\ ni'["srcIP"] = "found" /\ ni'["gwMAC"] = "found"
        /\ ni'["srcMAC"] \in {"", "found"}
    BY <1>0, <1>5, <2>1 DEF FindGateway
  <2>3. \A p \in Param : param'[p] = IF p \in given THEN "given" ELSE ni'[p]
    <3>1. \A p \in Param : param[p] = IF p \in given THEN "given" ELSE ""
      BY <1>5 DEF FindGateway
    <3>2. param' = [p \in Param |-> IF param[p] = "" THEN ni'[p] ELSE param[p]]
      BY <2>1 DEF FillIn
    <3> HIDE DEF Param
    <3> QED
      BY <3>1, <3>2
  <2>4. main' \in {"check", "validate"} /\ given' = given
    BY <1>5 DEF FindGateway, Prepared
  <2>5. \A p \in Param : p = "iface" \/ p = "srcIP" \/ p = "srcMAC" \/ p = "gwMAC"
    OBVIOUS
  <2>6. \A p \in Param : \/ param'[p] = (IF p \in given THEN "given" ELSE "found")
                         \/ p = "srcMAC" /\ param'[p] = ""
    <3> HIDE DEF Param
    <3> QED
      BY <2>2, <2>3, <2>5
  <2> QED
    BY <2>4, <2>6
<1>6. CASE DiscoverFails \/ MainEnds \/ Killed \/ HandlerExits
  BY <1>6 DEF DiscoverFails, MainEnds, Killed, HandlerExits, Die
<1>7. CASE Validate
  BY <1>7 DEF Validate, RawValid, netVars
<1>8. CASE CheckFinds \/ CheckMisses \/ CheckErrs \/ Add \/ AddFails \/ ApplyReturns \/ Notify
  BY <1>8 DEF CheckFinds, CheckMisses, CheckErrs, Add, AddFails, ApplyReturns, Notify, netVars
<1>9. CASE StartFails \/ Signal \/ Delete \/ DeleteFails \/ UNCHANGED vars
  BY <1>9 DEF StartFails, Signal, Delete, DeleteFails, vars, netVars, RawValid
<1> QED
  BY <1>1, <1>2, <1>3, <1>4, <1>5, <1>6, <1>7, <1>8, <1>9 DEF Next

\* Whatever the commands print and however the neighbour table changes while
\* AutoDiscover reads it, a tunnel runs only with every parameter set as it
\* should be.
THEOREM Configured == Spec => []RunsConfigured
<1>1. Init => DiscoverTypeOK /\ ConfigInv
  BY DiscoverTypeInit DEF Init, ConfigInv, Discovering
<1>2. ConfigInv => RunsConfigured
  BY DEF ConfigInv, RunsConfigured, RawValid, Param
<1> QED
  BY <1>1, <1>2, DiscoverTypeNext, ConfigInvNext, PTL DEF Spec

-----------------------------------------------------------------------------
(* What failures of iptables leave behind *)

\* Of the rules Cleanup has passed no more is left than failures account for.
CleanedInv ==
  handler = "cleanup" => \A x \in Rule : x < c => rules[x] <= faults[x]

\* Apply adds only rules that are absent, or whose check has failed.
AddInv == main = "add" => rules[r] <= faults[r]

ExitInv == IInv /\ AddInv /\ CleanedInv /\ NoDuplicates /\ CleanExitLeavesNothing

LEMMA ExitInvInit == Init => ExitInv
BY IInvInit DEF Init, ExitInv, AddInv, CleanedInv, NoDuplicates, CleanExitLeavesNothing

LEMMA ExitInvNext == ExitInv /\ [Next]_vars => ExitInv'
<1> SUFFICES ASSUME ExitInv, [Next]_vars PROVE ExitInv'
  OBVIOUS
<1>0. IInv /\ IInv'
  BY IInvNext DEF ExitInv
<1>a. TypeOK /\ HandlerInv
  BY <1>0 DEF IInv
<1> SUFFICES (AddInv /\ CleanedInv /\ NoDuplicates /\ CleanExitLeavesNothing)'
  BY <1>0 DEF ExitInv
<1> USE <1>a DEF ExitInv, TypeOK, HandlerInv, AddInv, CleanedInv, NoDuplicates,
    CleanExitLeavesNothing, Starting, Discovering, aside
<1>1. CASE Start \/ StartFails
  BY <1>1 DEF Start, StartFails, Prepared
<1>11. CASE FindRoute \/ FindInterface \/ MissGateway \/ Ping \/ NeighChanges
  BY <1>11 DEF FindRoute, FindInterface, MissGateway, Ping, NeighChanges
<1>12. CASE FindGateway
  BY <1>12 DEF FindGateway, Prepared
<1>13. CASE DiscoverFails
  BY <1>13 DEF DiscoverFails, Die
<1>2. CASE CheckFinds
  BY <1>2 DEF CheckFinds
<1>3. CASE CheckMisses
  BY <1>3 DEF CheckMisses, ApplyDone, Present
<1>14. CASE CheckErrs
  <2>1. r \in Rule /\ Fails(r)
    BY <1>14 DEF CheckErrs, ApplyDone
  <2>2. /\ faults'[r] = faults[r] + 1
        /\ \A y \in Rule : /\ faults[y] \in Nat /\ faults'[y] \in Nat
                          /\ faults[y] <= faults'[y]
    BY <2>1, FailsFacts
  <2>3. /\ UNCHANGED <<rules, r, handler, c, exit>>
        /\ main = "check" /\ main' = "add" /\ handler = "none"
    BY <1>14 DEF CheckErrs
  <2>4. \A y \in Rule : rules[y] \in Nat /\ rules[y] <= 1 + faults[y]
    OBVIOUS
  <2> QED
    BY ONLY <2>1, <2>2, <2>3, <2>4 DEF AddInv, CleanedInv, NoDuplicates, CleanExitLeavesNothing
<1>4. CASE Add
  BY <1>4 DEF Add
<1>5. CASE AddFails \/ Notify \/ Validate \/ ApplyReturns
  BY <1>5 DEF AddFails, Notify, Validate, ApplyReturns
<1>6. CASE MainEnds \/ Killed
  BY <1>6 DEF MainEnds, Killed, Die
<1>7. CASE HandlerExits
  BY <1>7 DEF HandlerExits, Die
<1>8. CASE Signal
  <2>1. c = 1
    BY <1>8 DEF Signal
  <2> QED
    BY <1>8, <2>1 DEF Signal
<1>9. CASE Delete
  <2>1. /\ UNCHANGED <<faults, main, r, handler, exit>> /\ c' = c + 1
        /\ handler = "cleanup" /\ main \in {"validate", "run"} /\ c \in Rule
    BY <1>9 DEF Delete
  <2>2. \A y \in Rule : /\ rules[y] \in Nat /\ faults[y] \in Nat
                        /\ rules[y] <= 1 + faults[y]
                        /\ y < c => rules[y] <= faults[y]
    BY <2>1
  <2>3. \A y \in Rule :
          rules'[y] = IF y # c THEN rules[y] ELSE IF rules[c] > 0 THEN rules[c] - 1 ELSE 0
    BY <1>9 DEF Delete
  <2>4. \A y \in Rule : /\ rules'[y] <= 1 + faults[y]
                        /\ y < c + 1 => rules'[y] <= faults[y]
    BY ONLY <2>1, <2>2, <2>3, NRulesAssumption DEF Rule
  <2> QED
    BY ONLY <2>1, <2>4 DEF AddInv, CleanedInv, NoDuplicates, CleanExitLeavesNothing
<1>15. CASE DeleteFails
  <2>1. /\ faults'[c] = faults[c] + 1
        /\ \A y \in Rule : /\ faults[y] \in Nat /\ faults'[y] \in Nat
                          /\ faults[y] <= faults'[y]
    BY <1>15, FailsFacts DEF DeleteFails
  <2>2. /\ UNCHANGED <<rules, main, r, handler, exit>> /\ c' = c + 1
        /\ handler = "cleanup" /\ main \in {"validate", "run"} /\ c \in Rule
    BY <1>15 DEF DeleteFails
  <2>3. \A y \in Rule : /\ rules[y] \in Nat /\ rules[y] <= 1 + faults[y]
                        /\ y < c => rules[y] <= faults[y]
    BY <2>2
  <2> QED
    BY ONLY <2>1, <2>2, <2>3, NRulesAssumption
       DEF AddInv, CleanedInv, NoDuplicates, CleanExitLeavesNothing, Rule
<1>10. CASE UNCHANGED vars
  BY <1>10 DEF vars
<1> HIDE DEF AddInv, CleanedInv, NoDuplicates, CleanExitLeavesNothing
<1> QED
  BY <1>1, <1>11, <1>12, <1>13, <1>14, <1>15, <1>2, <1>3, <1>4, <1>5, <1>6, <1>7, <1>8, <1>9,
     <1>10 DEF Next

\* Crashes and restarts never pile rules up: each copy beyond the first is owed
\* to a failure of iptables for that rule.
THEOREM NeverDuplicates == Spec => []NoDuplicates
<1>1. ExitInv => NoDuplicates
  BY DEF ExitInv
<1>2. ExitInv /\ [Next]_vars => ExitInv'
  BY ExitInvNext
<1> QED
  BY ExitInvInit, <1>1, <1>2, PTL DEF Spec

\* A clean exit leaves no rule behind, and so repairs what earlier crashes left,
\* but for one copy for each failure of iptables for that rule.
THEOREM CleanExit == Spec => []CleanExitLeavesNothing
<1>1. ExitInv => CleanExitLeavesNothing
  BY DEF ExitInv
<1>2. ExitInv /\ [Next]_vars => ExitInv'
  BY ExitInvNext
<1> QED
  BY ExitInvInit, <1>1, <1>2, PTL DEF Spec

=============================================================================
