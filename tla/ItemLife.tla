------------------------------- MODULE ItemLife -------------------------------
(* What an item of a preventive maintenance task promises: it is generated    *)
(* once, it is worked on in the order below, and its result is final.  The    *)
(* enum of pmv2_task_items.status only lists the states.                      *)
CONSTANT Items

VARIABLE life    \* the status of each item, "absent" before it is generated

Edges == {<<"absent", "pending">>, <<"pending", "in_progress">>,
          <<"in_progress", "completed">>,
          <<"in_progress", "waiting_material">>, <<"in_progress", "waiting_ticket">>,
          <<"waiting_material", "ready_to_complete">>,
          <<"ready_to_complete", "in_progress">>, <<"ready_to_complete", "completed">>,
          <<"waiting_ticket", "completed">>}

Init == life = [i \in Items |-> "absent"]

Advance(i) == \E e \in Edges :
  /\ life[i] = e[1]
  /\ life' = [life EXCEPT ![i] = e[2]]

Next == \E i \in Items : Advance(i)

Spec == Init /\ [][Next]_life
===============================================================================
