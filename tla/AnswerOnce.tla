------------------------------ MODULE AnswerOnce ------------------------------
(***************************************************************************)
(* What a caller of StreamChatWithRetries may rely on, whatever number of  *)
(* HTTP requests are made on its behalf: the text it is handed piece by    *)
(* piece is one answer that only ever grows, the call returns once, and    *)
(* the content of the returned result is exactly the text handed over.     *)
(* Attempts, back-off, status codes and clocks are invisible here.         *)
(***************************************************************************)
EXTENDS Naturals, Sequences

CONSTANT Text      \* the non-empty pieces of text a server may generate

VARIABLES
  phase,           \* "running" until the call returns, then "returned"
  answer,          \* the pieces handed to onContent so far, in order
  content,         \* the content of the returned result
  verdict          \* "none" while running, then "ok" or "failed"

avars == <<phase, answer, content, verdict>>

Init ==
  /\ phase   = "running"
  /\ answer  = <<>>
  /\ content = <<>>
  /\ verdict = "none"

(* More of the same answer arrives: what was handed over stays as it is. *)
Deliver ==
  /\ phase = "running"
  /\ answer' \in Seq(Text)
  /\ Len(answer') > Len(answer)
  /\ SubSeq(answer', 1, Len(answer)) = answer
  /\ UNCHANGED <<phase, content, verdict>>

(* The call returns, with all of the answer and nothing else. *)
Return ==
  /\ phase = "running"
  /\ phase'   = "returned"
  /\ content' = answer
  /\ verdict' \in {"ok", "failed"}
  /\ UNCHANGED answer

Next == Deliver \/ Return

Spec == Init /\ [][Next]_avars
===============================================================================
