------------------------------ MODULE Channel ------------------------------
(***************************************************************************)
(* What comm_send_data and comm_receive_data promise together: every       *)
(* message arrives once, whole, in the order of sending.  Nothing is       *)
(* promised once the channel is broken.                                    *)
(***************************************************************************)
EXTENDS Naturals, Sequences

CONSTANT Messages

VARIABLES sent,      \* what was given to comm_send_data
          received,  \* what comm_receive_data has returned, parsed
          broken     \* "yes" once nothing is promised any more

cvars == <<sent, received, broken>>

CInit == sent = << >> /\ received = << >> /\ broken = "no"

CSend ==
  /\ \E m \in Messages : sent' = Append(sent, m)
  /\ UNCHANGED received

CReceive ==
  /\ Len(received) < Len(sent)
  /\ received' = Append(received, sent[Len(received) + 1])
  /\ UNCHANGED sent

CBreak == broken' = "yes"

CNext ==
  \/ broken = "no" /\ broken' = "no" /\ (CSend \/ CReceive)
  \/ CBreak

CSpec == CInit /\ [][CNext]_cvars
=============================================================================
