------------------------- MODULE MdnsTransportHistory -------------------------
(***************************************************************************)
(* MdnsTransport with a history variable: for every registry key, the     *)
(* events applied to it since it was last created or deleted.  The        *)
(* variable is observation only (no action of MdnsTransport reads it); it  *)
(* lets the merge rules of ServiceUpdated be checked against a            *)
(* declarative reference over whole event sequences.                      *)
(***************************************************************************)
EXTENDS MdnsTransport, Sequences

CONSTANT MaxHistory   \* bound on the length of a recorded history (model bound)

ASSUME HistoryAssumption == MaxHistory \in Nat \ {0}

VARIABLE hist   \* hist[k]: ServiceInfos applied to k since its last reset

hvars == <<vars, hist>>

\* The history after the registry step that starts handling event e.
Record_History(e) ==
    LET k == fq_name(e.info) IN
    CASE e.state = "Created" -> [hist EXCEPT ![k] = <<e.info>>]
      [] e.state = "Updated" -> [hist EXCEPT ![k] = Append(@, e.info)]
      [] e.state = "Deleted" -> [hist EXCEPT ![k] = <<>>]

HInit == Init /\ hist = [k \in Key |-> <<>>]

HNext ==
    /\ Next
    /\ hist' = IF ev = None /\ ev' # None THEN Record_History(ev') ELSE hist
    /\ \A k \in Key : Len(hist'[k]) <= MaxHistory

HSpec == HInit /\ [][HNext]_hvars

(***************************************************************************)
(* Reference: what a registry entry should hold after a history h,        *)
(* stated over the whole sequence (§4.2 of the design).                   *)
(***************************************************************************)
\* The last v4 address any event of h carried, or NoV4.
LastV4(h) ==
    IF \E i \in 1..Len(h) : h[i].v4_address # NoV4
    THEN h[CHOOSE i \in 1..Len(h) :
             /\ h[i].v4_address # NoV4
             /\ \A j \in i+1..Len(h) : h[j].v4_address = NoV4].v4_address
    ELSE NoV4

ExpectedEntry(h) ==
    IF h = <<>> THEN Absent
    ELSE [v4_address |-> LastV4(h),
          v6_addresses |-> UNION {h[i].v6_addresses : i \in 1..Len(h)},
          port |-> h[Len(h)].port,
          attributes |-> h[Len(h)].attributes]

\* Every registry entry equals the merge of all events since it was created:
\* it holds every v6 address any of them announced, the latest v4 address
\* announced (never cleared by an event without one), and the latest port
\* and attributes; a deleted or never-seen key has no entry.
RegistryReflectsHistory ==
    \A k \in Key : services[k] = ExpectedEntry(hist[k])
=============================================================================
