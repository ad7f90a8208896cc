--------------------------- MODULE InstanceLifecycle ---------------------------
(***************************************************************************)
(* What the instances table promises its readers: the life of one Claude   *)
(* CLI instance as the REST API and the frontends see it, with nothing of   *)
(* sockets, transactions or handlers.  "errored" is provisional (a row      *)
(* errored on suspicion is revived when the node reports the instance);     *)
(* "finished" is final, and no row is ever removed or made pending again.   *)
(***************************************************************************)
CONSTANT Instance
VARIABLE row

Init == row = [i \in Instance |-> "absent"]

\* A dispatch creates the row.
Create(i) ==
  /\ row[i] = "absent"
  /\ row' = [row EXCEPT ![i] = "pending"]

\* An ack or instance_started of the node.
Confirm(i) ==
  /\ row[i] \in {"pending", "errored"}
  /\ row' = [row EXCEPT ![i] = "running"]

\* instance_finished of the node.  It is never the first thing heard of i.
Finish(i) ==
  /\ row[i] \in {"running", "errored"}
  /\ row' = [row EXCEPT ![i] = "finished"]

\* instance_error, or any group of instances given up at once.
Fail(S) ==
  /\ \A i \in S : row[i] \in {"pending", "running"}
  /\ row' = [i \in Instance |-> IF i \in S THEN "errored" ELSE row[i]]

\* A registration: vanished instances fail, reported ones are confirmed (revived,
\* when they were errored behind it), and those the table never had are adopted.
Reconcile(gone, reported) ==
  /\ gone \cap reported = {}
  /\ \A i \in gone : row[i] \in {"pending", "running"}
  /\ \A i \in reported : row[i] # "finished"
  /\ row' = [i \in Instance |-> IF i \in gone THEN "errored"
                                ELSE IF i \in reported THEN "running" ELSE row[i]]

Next ==
  \/ \E i \in Instance : Create(i) \/ Confirm(i) \/ Finish(i)
  \/ \E S \in SUBSET Instance : Fail(S)
  \/ \E gone, reported \in SUBSET Instance : Reconcile(gone, reported)

Spec == Init /\ [][Next]_row
=============================================================================
