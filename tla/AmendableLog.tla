---------------------------- MODULE AmendableLog ----------------------------
(* What the ledger promises its users, whatever it keeps in storage: a list  *)
(* of entries that only grows, in which an entry may be amended but every    *)
(* earlier version of it stays, and pins of the whole list (snapshots) that  *)
(* keep what they pinned.                                                    *)
EXTENDS Naturals, Sequences

CONSTANT Payload

VARIABLES
    log,  \* entries [who, when, kind, versions], versions oldest first
    pins  \* for each pin the list as it was: [who, when, what] per entry

Newest(entry) == entry.versions[Len(entry.versions)]
Current == [k \in DOMAIN log |-> [who  |-> log[k].who,
                                  when |-> log[k].when,
                                  what |-> Newest(log[k])]]

Init == log = <<>> /\ pins = <<>>

(* One call appends one or more entries, none of them amended yet.           *)
Extends(old, new) ==
    /\ Len(new) > Len(old)
    /\ \A k \in DOMAIN old : new[k] = old[k]
    /\ \A k \in DOMAIN new \ DOMAIN old : Len(new[k].versions) = 1

(* One entry gets a further version; a rollback is one that repeats an old   *)
(* version.                                                                  *)
Amends(old, new) ==
    /\ Len(new) = Len(old)
    /\ \E k \in DOMAIN old :
          /\ \E what \in Payload :
                new[k] = [old[k] EXCEPT !.versions = Append(@, what)]
          /\ \A j \in DOMAIN old \ {k} : new[j] = old[j]

Grow == Extends(log, log') /\ UNCHANGED pins

Amend == Amends(log, log') /\ UNCHANGED pins

Pin ==
    /\ pins' = Append(pins, Current)
    /\ UNCHANGED log

Next == Grow \/ Amend \/ Pin

Spec == Init /\ [][Next]_<<log, pins>>
=============================================================================
