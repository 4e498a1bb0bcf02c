----------------------------- MODULE Measurement -----------------------------
(***************************************************************************)
(* What a measuring engine promises: a download and then an upload, over a *)
(* fixed number of lanes.  A lane serves one agent at a time, an agent's   *)
(* job belongs to one measurement from beginning to end, and what the job  *)
(* transfers is added to the volume of that measurement, one chunk at a    *)
(* time.  There is no flag, no mutex, no slot to fill and no clock in it.  *)
(***************************************************************************)
EXTENDS Naturals

CONSTANTS Lanes,   \* the connections used side by side
          Agents   \* who does a job

VARIABLES stage,   \* the measurement that goes on, or "over"
          job,     \* agent -> its lane and its measurement
          volume   \* measurement -> what has been transferred for it

Kinds == {"download", "upload"}
NoJob == [lane |-> 0, kind |-> "none"]

Init == /\ stage = "download"
        /\ job = [a \in Agents |-> NoJob]
        /\ volume = [k \in Kinds |-> 0]

\* An agent takes a lane that nobody has, for the measurement that goes on.
Begin(a) == /\ stage # "over" /\ job[a] = NoJob
            /\ \E l \in Lanes :
                 /\ \A b \in Agents : job[b] = NoJob \/ job[b].lane # l
                 /\ job' = [job EXCEPT ![a] = [lane |-> l, kind |-> stage]]
            /\ UNCHANGED <<stage, volume>>

\* A job of the download may still be there in the upload: it counts for its own.
Transfer(a) == /\ stage # "over" /\ job[a] # NoJob
               /\ volume' = [volume EXCEPT ![job[a].kind] = @ + 1]
               /\ UNCHANGED <<stage, job>>

Finish(a) == /\ stage # "over" /\ job[a] # NoJob
             /\ job' = [job EXCEPT ![a] = NoJob]
             /\ UNCHANGED <<stage, volume>>

Advance == /\ \/ stage = "download" /\ stage' = "upload"
              \/ stage = "upload" /\ stage' = "over"
           /\ UNCHANGED <<job, volume>>

Next == Advance \/ \E a \in Agents : Begin(a) \/ Transfer(a) \/ Finish(a)

Spec == Init /\ [][Next]_<<stage, job, volume>>
=============================================================================
