------------------------------ MODULE Replies ------------------------------
(***************************************************************************)
(* What a call to a model comes back with, and how src/ctswarm/backends/   *)
(* judges it: the failure taxonomy of base.py, the checks of a completion  *)
(* that looks like a success, and the context window that ollama.py asks   *)
(* for.  The text of an answer is reduced to what those checks look for.   *)
(***************************************************************************)
EXTENDS Naturals

(* net: how the call ended; text: what an error body speaks of; json, choices, *)
(* cut, calls, content: what the body of a 200 holds.                          *)
ReplyRecord == [net : {"answer", "timeout", "refused"}, status : Nat,
                text : {"plain", "context", "auth"}, json : BOOLEAN, choices : BOOLEAN,
                cut : BOOLEAN, calls : {"none", "good", "bad"}, content : BOOLEAN]

(* Failures that count against the model. *)
BreakerFailures ==
    {"malformed_tool_call", "schema_violation", "timeout", "connection_error",
     "empty_response", "truncated_response", "rate_limited", "server_error"}

(* Failures no other model can mend. *)
NonRetryable == {"auth_error", "model_not_found", "bad_request", "cancelled"}

FailureKind == BreakerFailures \cup NonRetryable \cup {"context_overflow"}

(* The meaning of an HTTP status other than 200. *)
Classify(status, text) ==
    CASE status = 429 -> "rate_limited"
      [] status \in {401, 403} -> "auth_error"
      [] status = 404 -> "model_not_found"
      [] status = 400 /\ text = "context" -> "context_overflow"
      [] status = 400 /\ text = "auth" -> "auth_error"
      [] status = 400 /\ text = "plain" -> "bad_request"
      [] OTHER -> "server_error"

(* A 200 whose completion is no use.  Prose where a tool call was asked for is *)
(* let through: the test for it comes after one that already returned.         *)
Inspect(reply) ==
    CASE ~reply.choices -> "empty_response"
      [] reply.choices /\ reply.cut -> "truncated_response"
      [] reply.choices /\ ~reply.cut /\ reply.calls = "bad" -> "malformed_tool_call"
      [] reply.choices /\ ~reply.cut /\ reply.calls = "none" /\ ~reply.content -> "empty_response"
      [] OTHER -> "ok"

(* The first byte of a stream: the completion itself is never looked at. *)
StartOutcome(reply) ==
    CASE reply.net = "timeout" -> "timeout"
      [] reply.net = "refused" -> "connection_error"
      [] reply.net = "answer" /\ reply.status # 200 -> Classify(reply.status, reply.text)
      [] OTHER -> "ok"

(* A call that is answered as a whole. *)
ChatOutcome(reply) ==
    IF StartOutcome(reply) # "ok" THEN StartOutcome(reply)
    ELSE IF ~reply.json THEN "server_error" ELSE Inspect(reply)

-----------------------------------------------------------------------------
(* The window ollama is asked for, so that it does not cut a prompt silently. *)

Buckets == {8192, 16384, 32768, 65536, 131072}
Largest == 131072
ReasoningAllowance == 6144

(* int(n * 1.5) *)
Needed(prompt, budget) == (3 * (prompt + budget)) \div 2

OutputBudget(requested, reasoner) == IF reasoner THEN requested + ReasoningAllowance ELSE requested

(* The smaller of two limits, of which 0 is none. *)
Tighter(a, b) == IF a = 0 THEN b ELSE IF b = 0 THEN a ELSE IF a <= b THEN a ELSE b

(* The smallest bucket that fits, or the largest there is. *)
Fitting(needed) ==
    IF needed > Largest THEN Largest
    ELSE CHOOSE b \in Buckets : b >= needed /\ \A c \in Buckets : c >= needed => b <= c

NumCtx(prompt, requested, reasoner, ceiling) ==
    Tighter(Fitting(Needed(prompt, OutputBudget(requested, reasoner))), ceiling)
=============================================================================
