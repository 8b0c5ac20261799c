---------------------------- MODULE ProjectFiles ----------------------------
(***************************************************************************)
(* What a project's readers and writers are promised, storage pool or not: *)
(* a file is readable from its upload to its removal, and the place where  *)
(* the project is kept may change without any file becoming unreadable.    *)
(***************************************************************************)
CONSTANTS Keys, Stores, Default

VARIABLES place, readable

Init == place = Default /\ readable \subseteq Keys

Upload(k) ==
  /\ k \in Keys \ readable
  /\ readable' = readable \cup {k}
  /\ UNCHANGED place

Replace(k, j) ==
  /\ k \in Keys \ readable /\ j \in readable
  /\ readable' = (readable \ {j}) \cup {k}
  /\ UNCHANGED place

Remove(k) ==
  /\ k \in readable
  /\ readable' = readable \ {k}
  /\ UNCHANGED place

Relocate(s) ==
  /\ s \in Stores \ {place}
  /\ place' = s
  /\ UNCHANGED readable

Next ==
  \/ \E k \in Keys : Upload(k) \/ Remove(k)
  \/ \E k, j \in Keys : Replace(k, j)
  \/ \E s \in Stores : Relocate(s)

Spec == Init /\ [][Next]_<<place, readable>>

=============================================================================
