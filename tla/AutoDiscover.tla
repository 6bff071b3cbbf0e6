---------------------------- MODULE AutoDiscover ----------------------------
(***************************************************************************)
(* The network parameters of a process in raw mode: those given as flags,  *)
(* and AutoDiscover (t2tunnel/autodiscover.go), which finds the others by  *)
(* running ip and ping and reading the kernel's neighbour table while the  *)
(* kernel changes it.  The steps are taken by RawLifecycle.                *)
(***************************************************************************)
VARIABLES
  given,       \* the parameters the service is started with
  param,       \* param[p]: *iface, *srcIP, *srcMAC and *gwMAC
  ni,          \* ni[p]: the AutoNetInfo so far
  neigh        \* the gateway's entry in the neighbour table

netVars == <<given, param, ni, neigh>>

Param == {"iface", "srcIP", "srcMAC", "gwMAC"}
\* "" is unset; "zero" is 00:00:00:00:00:00.
Value == {"", "given", "found", "zero"}
Neigh == {"none", "incomplete", "resolved"}

Unset == [p \in Param |-> ""]

DiscoverTypeOK ==
  /\ given \in SUBSET Param
  /\ param \in [Param -> Value]
  /\ ni \in [Param -> Value]
  /\ neigh \in Neigh

DiscoverInit ==
  /\ given \in SUBSET Param
  /\ param = Unset
  /\ ni = Unset
  /\ neigh = "none"

\* flag.Parse()
ParseFlags == param' = [p \in Param |-> IF p \in given THEN "given" ELSE ""]

\* What follows which word in the output of ip route get; "via" is looked at but
\* not kept.
Route(words) ==
  [Unset EXCEPT !["iface"] = IF "dev" \in words THEN "found" ELSE "",
                !["srcIP"] = IF "src" \in words THEN "found" ELSE ""]

RouteUsable(words) == {"dev", "src", "via"} \subseteq words

ArpMAC_Unfiltered ==
  CASE neigh = "none" -> "" [] neigh = "incomplete" -> "zero" [] OTHER -> "found"
\* /proc/net/arp shows an incomplete entry with an address of zeros: skipped.
ArpMAC == IF neigh = "resolved" THEN "found" ELSE ""

\* ip neigh, which shows an address only when it is known, or else /proc/net/arp.
ReadNeighMAC(ipWorks) == IF ipWorks /\ neigh = "resolved" THEN "found" ELSE ArpMAC

\* if *iface == "" { *iface = ni.Iface }, and so on.
FillIn(info) == param' = [p \in Param |-> IF param[p] = "" THEN info[p] ELSE param[p]]
=============================================================================
