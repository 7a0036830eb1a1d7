----------------------------- MODULE ModelCall ------------------------------
(***************************************************************************)
(* observability.structured_call and the two providers behind it: one      *)
(* schema-checked answer of a model, or the reason why there is none.  A   *)
(* reply is a record [fault, choices, call, text, finish]; its text is a   *)
(* sequence of JSON tokens [t, k, v], where a value is its kind ("int",    *)
(* "whole" for 250.0, "nullword" for the string "null", "said" for a       *)
(* string that quotes a chat sentinel, "half" for one that was cut off,    *)
(* "cut" for what is left of either).  Objects inside an object follow the *)
(* same rules and are left out.  Each definition named ...Wrong is a       *)
(* mutation of the one that follows it.                                    *)
(***************************************************************************)
EXTENDS Integers, Sequences, SequencesExt, FiniteSetsExt

CONSTANTS Callers,        \* worker threads: each has its own _FAILURE and _call_stats
          Specialists,    \* those that call for the domain expert or the MCP agent
          Schemas,        \* set of [fields : [name -> [type, null, required]], extra]
          Replies,        \* what the vendor may do with a request
          MaxCalls        \* bound: structured calls of each of them

\* What a request may end in beside a response, by what the SDK's exception says.
Faults == {"", "insufficient", "text429", "text401", "permission", "timeout", "rate_limit", "auth",
           "transport", "error", "unknown"}
FieldTypes == [type : {"integer", "number", "boolean", "string"}, null : BOOLEAN, required : BOOLEAN]

ASSUME ModelAssumption ==
    /\ MaxCalls \in Nat
    /\ \A s \in Schemas : /\ s = [fields |-> s.fields, extra |-> s.extra]
                          /\ s.extra \in {"unset", "refused", "allowed"}
                          /\ \A k \in DOMAIN s.fields : s.fields[k] \in FieldTypes
    /\ \A r \in Replies : /\ r.fault \in Faults /\ {r.choices, r.call} \subseteq BOOLEAN
                          /\ r.text \in Seq(Range(r.text))

VARIABLES setup,          \* the backend, and whether it has a key
          call,           \* of each caller: the call under way, or its last one
          tally,          \* _call_stats: requests of the provider's last call, and their usage
          failure,        \* _FAILURE: the kind and the stats of the last call
          line,           \* events of the last call
          counted         \* calls that asked and what they spent; what reached the analytics of both
modelVars == <<setup, call, tally, failure, line, counted>>

(* ---- what the model wrote ----------------------------------------------- *)
Token(t) == [t |-> t, k |-> "", v |-> ""]
Pair(k, v) == [t |-> "pair", k |-> k, v |-> v]

\* the text up to the first sentinel, which may be inside a string
CutAtSentinel(text) ==
    LET p == SelectInSeq(text, LAMBDA x : x.t = "stop" \/ x.v = "said")
    IN  IF p = 0 THEN text
        ELSE SubSeq(text, 1, p - 1)
             \o (IF text[p].t = "stop" THEN <<>> ELSE <<Pair(text[p].k, "half")>>)

\* without its last commas; a pop of nothing is nothing
WithoutCommas(text) ==
    SubSeq(text, 1, SelectLastInSeq(text, LAMBDA x : x.t # "comma"))
Depth(text) ==
    FoldLeft(LAMBDA n, x : IF x.t = "open" THEN n + 1 ELSE IF x.t = "close" /\ n > 0 THEN n - 1 ELSE n, 0, text)
CloseUnbalanced(text) ==
    [i \in DOMAIN text |-> IF text[i].v = "half" THEN Pair(text[i].k, "cut") ELSE text[i]]
    \o [i \in 1..Depth(text) |-> Token("close")]

SanitiseArguments(text) == CloseUnbalanced(WithoutCommas(CutAtSentinel(text)))

\* <arg_key>/<arg_value> pairs in the content, and the JSON object made of them
ArgPairs(text) ==
    FoldLeft(LAMBDA found, x : IF x.t = "pair" /\ x.v # "half" THEN Append(found, x) ELSE found, <<>>, text)
TemplatedCall(text) ==
    LET pairs == ArgPairs(text)
    IN  <<Token("open")>>
        \o [i \in 1..(2 * Len(pairs) - 1) |-> IF i % 2 = 1 THEN pairs[(i + 1) \div 2] ELSE Token("comma")]
        \o <<Token("close")>>

\* json.loads: one object of pairs between commas; the last of two equal keys stays
WellFormed(text) ==
    /\ Len(text) > 1 /\ text[1].t = "open" /\ Last(text).t = "close"
    /\ Len(text) = 2 \/ Len(text) % 2 = 1
    /\ \A i \in 2..(Len(text) - 1) : text[i].t = IF i % 2 = 0 THEN "pair" ELSE "comma"
Loaded(text) ==
    [k \in {text[i].k : i \in {j \in DOMAIN text : text[j].t = "pair"}} |->
        text[SelectLastInSeq(text, LAMBDA x : x.t = "pair" /\ x.k = k)].v]

(* ---- validation.py ------------------------------------------------------ *)
UnstringNulls(p) == [k \in DOMAIN p |-> IF p[k] = "nullword" THEN "null" ELSE p[k]]

PermitsNull(s, k) == k \in DOMAIN s.fields /\ s.fields[k].null
NormaliseShortWrong(p, s) ==
    [k \in DOMAIN p |-> IF p[k] = "nullword" /\ PermitsNull(s, k) THEN "null" ELSE p[k]]
NormaliseNullables(p, s) ==
    [k \in DOMAIN p |-> IF p[k] \in {"nullword", "naword"} /\ PermitsNull(s, k) THEN "null" ELSE p[k]]

StrictenedNotWrong(s) == s
Strictened(s) == IF s.extra = "unset" THEN [s EXCEPT !.extra = "refused"] ELSE s

\* 250.0 is no integer here, and True is no number
HasType(v, f) ==
    \/ v = "null" /\ f.null
    \/ v \in CASE f.type = "integer" -> {"int"}
               [] f.type = "number"  -> {"int", "whole"}
               [] f.type = "boolean" -> {"bool"}
               [] f.type = "string"  -> {"str", "said", "cut", "nullword", "naword"}

Rejected == [kind |-> "schema", payload |-> <<>>]
Fault(kind) == [kind |-> kind, payload |-> <<>>]
ValidateFillsWrong(emitted, s) ==
    LET p == NormaliseNullables(emitted, s)
        absent == {k \in DOMAIN s.fields \ DOMAIN p : s.fields[k].null}
        errors == {k \in DOMAIN s.fields \ (DOMAIN p \cup absent) : s.fields[k].required}
                  \cup {k \in DOMAIN p \ DOMAIN s.fields : s.extra = "refused"}
                  \cup {k \in DOMAIN p \cap DOMAIN s.fields : ~HasType(p[k], s.fields[k])}
    IN  IF errors = {} THEN [kind |-> "", payload |-> p @@ [k \in absent |-> "null"]] ELSE Rejected
ValidateAgainstSchema(emitted, s) ==
    LET p == NormaliseNullables(emitted, s)
        errors == {k \in DOMAIN s.fields \ DOMAIN p : s.fields[k].required}
                  \cup {k \in DOMAIN p \ DOMAIN s.fields : s.extra = "refused"}
                  \cup {k \in DOMAIN p \cap DOMAIN s.fields : ~HasType(p[k], s.fields[k])}
    IN  IF errors = {} THEN [kind |-> "", payload |-> p] ELSE Rejected

(* ---- one request -------------------------------------------------------- *)
\* the neutral word for an exception of either SDK
ZaiKindOf(e) == CASE e = "insufficient" -> "balance" [] e = "text429" -> "rate_limit"
                  [] e = "text401" -> "auth" [] e = "permission" -> "error" [] OTHER -> e
ClaudeKindOf(e) == CASE e = "insufficient" -> "rate_limit" [] e \in {"text429", "text401"} -> "error"
                     [] e = "permission" -> "auth" [] OTHER -> e

ForcedCall(r, s) ==
    CASE r.fault # ""   -> Fault(IF r.fault = "unknown" THEN "unknown" ELSE ZaiKindOf(r.fault))
      [] r.fault = "" /\ ~r.choices -> Fault("empty")
      [] r.fault = "" /\ r.choices /\ ~r.call /\ ArgPairs(r.text) = <<>> ->
            Fault(IF r.finish = "length" THEN "budget_exhausted" ELSE "no_tool_call")
      [] OTHER ->
            LET text == SanitiseArguments(IF r.call THEN r.text ELSE TemplatedCall(r.text))
            IN  IF WellFormed(text) THEN ValidateAgainstSchema(UnstringNulls(Loaded(text)), s) ELSE Rejected

ClaudeCall(r, s) ==
    CASE r.fault # "" -> Fault(IF r.fault = "unknown" THEN "unknown" ELSE ClaudeKindOf(r.fault))
      [] r.fault = "" /\ r.finish = "refusal" -> Fault("refusal")
      [] r.fault = "" /\ r.finish # "refusal" /\ r.text = <<>> -> Fault("empty")
      [] OTHER -> IF WellFormed(r.text) THEN ValidateAgainstSchema(Loaded(r.text), s) ELSE Rejected

Asked(r, s) == IF setup.backend = "zai" THEN ForcedCall(r, s) ELSE ClaudeCall(r, s)

(* ---- what follows a request that failed --------------------------------- *)
Request(complaint, thinking) == [complaint |-> complaint, thinking |-> thinking]
NoMore == Request(FALSE, "none")

\* the corrective round: told what was wrong, or without reasoning, but never both twice
AfterCorrectionAgainWrong(kind, req) ==
    IF kind \in {"schema", "budget_exhausted"} THEN req ELSE NoMore
AfterCorrection(kind, req) ==
    IF kind = "budget_exhausted" THEN Request(req.complaint, "off") ELSE NoMore
AfterFirstTransportWrong(kind, req) ==
    IF kind \in {"schema", "no_tool_call", "timeout"} THEN req ELSE NoMore
AfterFirst(kind, req) ==
    CASE kind \in {"schema", "no_tool_call"} -> Request(TRUE, req.thinking)
      [] kind = "budget_exhausted"           -> Request(req.complaint, "off")
      [] OTHER                               -> NoMore

NextRequest(kind, req) ==
    IF kind = "" \/ setup.backend = "anthropic" \/ req.thinking = "off" THEN NoMore
    ELSE IF req.complaint THEN AfterCorrection(kind, req) ELSE AfterFirst(kind, req)

(* ---- structured_call ---------------------------------------------------- *)
\* _record_attempt: GLM's requests of one call add up, Claude makes only one.  What a response
\* used is a unit; a request that fails has no usage.
NoStats == [calls |-> 0, used |-> 0]
Usage(r) == IF r.fault = "" THEN 1 ELSE 0
TalliedLastUsageWrong(c, r) ==
    IF setup.backend = "zai" THEN [calls |-> tally[c].calls + 1, used |-> Usage(r)]
    ELSE [calls |-> 1, used |-> Usage(r)]
Tallied(c, r) ==
    IF setup.backend = "zai" THEN [calls |-> tally[c].calls + 1, used |-> tally[c].used + Usage(r)]
    ELSE [calls |-> 1, used |-> Usage(r)]

ModelInit ==
    /\ setup \in [backend : {"zai", "anthropic"}, keyed : BOOLEAN]
    /\ call = [c \in Callers |-> [at |-> "idle", calls |-> 0, schema |-> <<>>, req |-> NoMore, sent |-> <<>>,
                                  heard |-> <<>>, answer |-> "none", payload |-> <<>>]]
    /\ tally = [c \in Callers |-> NoStats]
    /\ failure = [c \in Callers |-> [kind |-> "", calls |-> 0]]
    /\ line = [c \in Callers |-> <<>>]
    /\ counted = [c \in Callers |-> [asked |-> 0, spent |-> 0, calls |-> 0, tokens |-> 0]]

Opened(c, s) == [call[c] EXCEPT !.calls = @ + 1, !.schema = s, !.sent = <<>>, !.heard = <<>>,
                                !.answer = "none", !.payload = <<>>]

\* _record_non_specialist_call: one model call, if it asked at all, and its whole usage; the
\* specialists' calls are recorded by the cache
RecordedEachWrong(c, t) ==
    IF c \in Specialists THEN [calls |-> counted[c].calls, tokens |-> counted[c].tokens]
    ELSE [calls |-> counted[c].calls + t.calls, tokens |-> counted[c].tokens + t.used]
Recorded(c, t) ==
    IF c \in Specialists THEN [calls |-> counted[c].calls, tokens |-> counted[c].tokens]
    ELSE [calls |-> counted[c].calls + (IF t.calls > 0 THEN 1 ELSE 0), tokens |-> counted[c].tokens + t.used]

\* refused by the limiter (and recorded as no call), raised by a provider that cannot be built,
\* or sent
RateLimited(c, s) ==
    /\ call' = [call EXCEPT ![c] = Opened(c, s)]
    /\ failure' = [failure EXCEPT ![c] = [kind |-> "rate_limit", calls |-> 0]]
    /\ line' = [line EXCEPT ![c] = <<>>]
    /\ UNCHANGED <<tally, counted>>
Unbuilt(c, s) ==
    /\ setup.backend = "zai" /\ ~setup.keyed
    /\ call' = [call EXCEPT ![c] = [Opened(c, s) EXCEPT !.answer = "raised"]]
    /\ failure' = [failure EXCEPT ![c] = [kind |-> "", calls |-> 0]]
    /\ line' = [line EXCEPT ![c] = <<>>]
    /\ UNCHANGED <<tally, counted>>
SentKeepsTallyWrong(c, s) ==
    /\ setup.backend = "anthropic" \/ setup.keyed
    /\ call' = [call EXCEPT ![c] = [Opened(c, s) EXCEPT !.at = "asking", !.req = Request(FALSE, "on"),
                                                        !.schema = Strictened(s)]]
    /\ failure' = [failure EXCEPT ![c] = [kind |-> "", calls |-> 0]]
    /\ line' = [line EXCEPT ![c] = <<"STARTED">>]
    /\ UNCHANGED <<tally, counted>>
Sent(c, s) ==
    /\ setup.backend = "anthropic" \/ setup.keyed
    /\ call' = [call EXCEPT ![c] = [Opened(c, s) EXCEPT !.at = "asking", !.req = Request(FALSE, "on"),
                                                        !.schema = Strictened(s)]]
    /\ tally' = [tally EXCEPT ![c] = NoStats]
    /\ failure' = [failure EXCEPT ![c] = [kind |-> "", calls |-> 0]]
    /\ line' = [line EXCEPT ![c] = <<"STARTED">>]
    /\ UNCHANGED counted

StructuredCall(c, s) ==
    /\ call[c].at = "idle" /\ call[c].calls < MaxCalls
    /\ RateLimited(c, s) \/ Unbuilt(c, s) \/ Sent(c, s)
    /\ UNCHANGED setup

\* how a call ends: the payload, or None with its kind
ReturnOneFailureWrong(c, o, n) ==
    /\ failure' = [x \in Callers |-> [kind |-> o.kind, calls |-> n]]
    /\ line' = [line EXCEPT ![c] = Append(@, IF o.kind = "" THEN "COMPLETED" ELSE "FAILED")]
ReturnSilentWrong(c, o, n) ==
    /\ failure' = [failure EXCEPT ![c] = [kind |-> o.kind, calls |-> n]]
    /\ line' = IF o.kind = "unknown" THEN line
               ELSE [line EXCEPT ![c] = Append(@, IF o.kind = "" THEN "COMPLETED" ELSE "FAILED")]
Return(c, o, n) ==
    /\ failure' = [failure EXCEPT ![c] = [kind |-> o.kind, calls |-> n]]
    /\ line' = [line EXCEPT ![c] = Append(@, IF o.kind = "" THEN "COMPLETED" ELSE "FAILED")]

\* one request: it is on the tally whatever comes of it, and may be followed by another
Attempt(c, r) ==
    LET o    == Asked(r, call[c].schema)
        next == NextRequest(o.kind, call[c].req)
        t    == Tallied(c, r)
        over == next = NoMore
        made == [call[c] EXCEPT !.sent = Append(@, call[c].req), !.req = next]
        told == IF over THEN Recorded(c, t) ELSE [calls |-> counted[c].calls, tokens |-> counted[c].tokens]
    IN  /\ call[c].at = "asking"
        /\ tally' = [tally EXCEPT ![c] = t]
        /\ call' = [call EXCEPT ![c] = IF over THEN [made EXCEPT !.at = "idle", !.payload = o.payload,
                                                     !.heard = r.text, !.answer = IF o.kind = "" THEN "payload" ELSE "none"]
                                       ELSE made]
        /\ counted' = [counted EXCEPT ![c] = [asked |-> @.asked + (IF call[c].sent = <<>> THEN 1 ELSE 0),
                                              spent |-> @.spent + Usage(r),
                                              calls |-> told.calls, tokens |-> told.tokens]]
        /\ IF over THEN Return(c, o, t.calls) ELSE UNCHANGED <<failure, line>>
        /\ UNCHANGED setup

ModelNext == \E c \in Callers : (\E s \in Schemas : StructuredCall(c, s)) \/ (\E r \in Replies : Attempt(c, r))

ModelSpec == ModelInit /\ [][ModelNext]_modelVars

-----------------------------------------------------------------------------
(* Properties                                                              *)

\* The shape of the state: a call under way has a request, and no answer yet.
ModelTypeOK ==
    /\ \A c \in Callers : call[c].at \in {"idle", "asking"} /\ call[c].calls \in 0..MaxCalls
                          /\ call[c].answer \in {"none", "raised", "payload"}
                          /\ (call[c].at = "asking" <=> call[c].req # NoMore)
    /\ \A c \in Callers : tally[c].calls \in 0..3 /\ tally[c].used \in Nat

\* What an agent gets has every field that was required, no field that was not declared
\* (unless the schema asked for others), and a null only where null is allowed: a renamed
\* field, or 250.0 for a count, never passes (validation.py:1-25, 127-178).
AnswerIsAsAsked ==
    \A c \in Callers : call[c].answer = "payload" =>
        LET p == call[c].payload
            f == call[c].schema.fields
        IN  /\ {k \in DOMAIN f : f[k].required} \subseteq DOMAIN p
            /\ call[c].schema.extra # "allowed" => DOMAIN p \subseteq DOMAIN f
            /\ \A k \in DOMAIN p \cap DOMAIN f :
                   /\ p[k] = "null" => f[k].null
                   /\ f[k].type = "integer" => p[k] \in {"int", "null"}

\* Whatever was repaired on the way (sentinels cut, brackets closed, templates read, nulls
\* unstrung), every field of the answer was written by the model in its last reply, as it is or
\* as a word for null; a string may have lost its end (zai_provider.py:431-535).
NothingInvented ==
    \A c \in Callers : call[c].answer = "payload" =>
        \A k \in DOMAIN call[c].payload :
            \E i \in DOMAIN call[c].heard :
                LET said == call[c].heard[i]
                    got  == call[c].payload[k]
                IN  /\ said.k = k
                    /\ \/ got = said.v
                       \/ got = "null" /\ said.v \in {"nullword", "naword"}
                       \/ got = "cut" /\ said.v \in {"said", "half"}

\* A null that the schema admits and the model spelt as a word reaches the agent as null: it is
\* never left as a string that is true (validation.py:62-94).
NullsAreNull ==
    \A c \in Callers : call[c].answer = "payload" =>
        \A k \in DOMAIN call[c].payload :
            PermitsNull(call[c].schema, k) => call[c].payload[k] \notin {"nullword", "naword"}

\* No request of a call repeats another one unchanged, and what ran out of its budget is
\* reported only once it has been asked without reasoning (zai_provider.py:173-204, 251-260).
NoRequestTwice ==
    \A c \in Callers :
        LET sent == call[c].sent
        IN  /\ \A i, j \in DOMAIN sent : i # j => sent[i] # sent[j]
            /\ (call[c].at = "idle" /\ failure[c].kind = "budget_exhausted") => Last(sent).thinking = "off"

\* Every call that started ends once on the stream, as what its caller got
\* (observability.py:551-616).
EveryStartEnds ==
    \A c \in Callers :
        line[c] = CASE call[c].at = "asking"                          -> <<"STARTED">>
                    [] call[c].at = "idle" /\ call[c].sent = <<>>     -> <<>>
                    [] call[c].at = "idle" /\ call[c].answer = "payload" -> <<"STARTED", "COMPLETED">>
                    [] OTHER                                          -> <<"STARTED", "FAILED">>

\* last_failure_kind() tells of the caller's own last call, whatever other threads do: it is
\* empty during a call and after one that did not return None (observability.py:452-466).
KindIsOfThisCall ==
    \A c \in Callers :
        /\ call[c].at = "asking" => failure[c] = [kind |-> "", calls |-> 0]
        /\ call[c].at = "idle" /\ call[c].calls > 0 =>
               /\ (failure[c].kind # "") <=> (call[c].answer = "none")
               /\ failure[c].calls = Len(call[c].sent)

\* In the analytics a structured call that asked is one model call, however many corrective
\* requests it took and however it ended, and what it used is the usage of all of them; a refused
\* one is none (observability.py:476-485, cache/service.py:253-270, zai_provider.py:96-112).
CountedAsMade ==
    \A c \in Callers \ Specialists : call[c].at = "idle" =>
        counted[c].calls = counted[c].asked /\ counted[c].tokens = counted[c].spent

\* A structured call ends in what the model said and the schema asked, or in why it did not, and is
\* counted once with all it used (zai_provider.py, validation.py, observability.py:440-616).
AnswerHolds == ModelTypeOK /\ AnswerIsAsAsked /\ NothingInvented /\ NullsAreNull /\ NoRequestTwice
               /\ EveryStartEnds /\ KindIsOfThisCall /\ CountedAsMade
=============================================================================
