----------------------------- MODULE Conversation -----------------------------
(***************************************************************************)
(* What a conversation promises its requester, whichever process serves    *)
(* it: one input at a time; while a question is open nothing but its       *)
(* answer; and a confirmation only as the answer to a question, once, about*)
(* the draft as it is.  The draft may be edited at any time.               *)
(***************************************************************************)
EXTENDS Naturals

VARIABLES phase,     \* free, working on an input, asked, or working on the answer
          subject,   \* the draft revision of the question, if there is one
          confirmed, \* the answer has confirmed the draft
          revision   \* of the draft

conversation == <<phase, subject, confirmed, revision>>
NoSubject == {}

Init ==
    /\ phase = "free" /\ subject = NoSubject /\ confirmed = FALSE
    /\ revision = 0

Input ==
    /\ phase = "free" /\ phase' = "working"
    /\ UNCHANGED <<subject, confirmed, revision>>

Answer ==
    /\ phase = "asked" /\ phase' = "answering"
    /\ UNCHANGED <<subject, confirmed, revision>>

Confirm ==
    /\ phase = "answering" /\ ~confirmed
    /\ subject = {revision}
    /\ confirmed' = TRUE
    /\ revision' \in {revision, revision + 1}
    /\ UNCHANGED <<phase, subject>>

(* An answer that has confirmed is not followed by the question again.     *)
Ask ==
    /\ phase \in {"working", "answering"} /\ ~confirmed
    /\ phase' = "asked"
    /\ \E r \in 0..revision : subject' = {r}
    /\ UNCHANGED <<confirmed, revision>>

(* An input is done with, a question is answered or withdrawn.             *)
Settle ==
    /\ phase # "free" /\ phase' = "free"
    /\ subject' = NoSubject /\ confirmed' = FALSE
    /\ UNCHANGED revision

Edit ==
    /\ revision' = revision + 1
    /\ UNCHANGED <<phase, subject, confirmed>>

Next == Input \/ Answer \/ Confirm \/ Ask \/ Settle \/ Edit

Spec == Init /\ [][Next]_conversation
===============================================================================
