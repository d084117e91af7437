---------------------------- MODULE TokenBudget ----------------------------
(***************************************************************************)
(* The choice of the messages that one request to the language model       *)
(* carries (internal/service/token_budget.go), with the limits NewAgent     *)
(* settles on and the test that sends a message to the intent router        *)
(* instead (agent.go).  A message is its role, whether it calls tools, and  *)
(* the number of tokens that the tokenizer of the model makes of its text;  *)
(* what a message costs beside its text depends on the first two only.      *)
(*                                                                          *)
(* The system message is cut with another tokenizer, cl100k_base whatever   *)
(* the model is.  A text is taken to have the same density throughout:      *)
(* CommonShare tokens of cl100k_base stand for ModelShare of the model.     *)
(***************************************************************************)
EXTENDS Integers, SequencesExt, Sums

CONSTANTS
  SafetyMargin,       \* tokenSafetyMargin
  DefaultModelMax,    \* defaultModelMaxTokens
  DefaultMaxOutput,   \* defaultMaxOutputTokens
  MessageCost,        \* tokens of a message beside its text and its calls
  CallsCost,          \* tokens of the calls of an assistant message
  SuffixTokens,       \* tokens of the note that a text was cut
  Drift,              \* tokens a cut text gains when it is encoded again,
                      \* because the cut may fall inside a character
  ModelShare,         \* tokens of the model in a piece of text
  CommonShare,        \* tokens of cl100k_base in it
  CommonSuffix        \* tokens of cl100k_base in the note

ASSUME BudgetAssumption ==
  /\ {SafetyMargin, DefaultModelMax, DefaultMaxOutput, CallsCost,
      SuffixTokens, Drift, ModelShare, CommonSuffix} \subseteq Nat
  /\ CommonShare \in Nat \ {0}
  /\ SafetyMargin >= 4 /\ MessageCost \in Nat \ {0}
  /\ DefaultMaxOutput \in 1 .. DefaultModelMax - 1

Bare(m) == MessageCost + (IF m.calls THEN CallsCost ELSE 0)

MessageTokens(m) == Bare(m) + m.text

MessagesTokens(ms) == Total([i \in DOMAIN ms |-> MessageTokens(ms[i])])

\* The part of a text that fits into max tokens; nothing is left of a text
\* when not even the note fits.
TruncateText(text, max) ==
  LET limit == max - SuffixTokens
  IN  IF limit <= 0 THEN 0
      ELSE IF text <= limit THEN text
      ELSE limit + SuffixTokens + Drift

TruncateMessage(m, budget) ==
  IF budget <= 0 \/ m.text = 0 \/ MessageTokens(m) <= budget
    THEN m
    ELSE [m EXCEPT !.text = TruncateText(m.text, budget - Bare(m))]

\* What the model counts in k tokens of cl100k_base; that tokenizer counts at
\* most k in a text just when the model counts at most this.
ModelTokens(k) == (k * ModelShare) \div CommonShare

\* truncateMessage: the same with cl100k_base in place of the model's tokenizer.
\* Beside its text a system message costs the same in both.
TruncateByCommon(m, budget) ==
  LET room  == budget - Bare(m)
      limit == room - CommonSuffix
  IN  IF budget <= 0 \/ m.text = 0 \/ m.text <= ModelTokens(room) THEN m
      ELSE [m EXCEPT !.text = IF limit <= 0 THEN 0
                              ELSE IF m.text <= ModelTokens(limit) THEN m.text
                              ELSE ModelTokens(limit) + SuffixTokens + Drift]

\* Bug: each message of a block gets the whole budget.
TruncateEachToBudget(block, budget) ==
  [i \in DOMAIN block |-> TruncateMessage(block[i], budget)]

\* A message without text is passed on even when nothing is left; the first
\* text that meets an empty budget ends the block.
TruncateNext(acc, m) ==
  IF acc.done THEN acc
  ELSE IF m.text # 0 /\ acc.left <= 0 THEN [acc EXCEPT !.done = TRUE]
  ELSE LET cut == TruncateMessage(m, acc.left)
       IN  [out |-> Append(acc.out, cut), left |-> acc.left - MessageTokens(cut), done |-> FALSE]

TruncatedAfter(block, budget) ==
  LET acc[i \in 0 .. Len(block)] ==
        IF i = 0 THEN [out |-> <<>>, left |-> budget, done |-> FALSE]
        ELSE TruncateNext(acc[i - 1], block[i])
  IN  acc

TruncateBlock(block, budget) ==
  IF Len(block) = 1 THEN <<TruncateMessage(block[1], budget)>>
  ELSE TruncatedAfter(block, budget)[Len(block)].out

\* A block is a message that calls tools with the results that follow it, or
\* any other message alone; this says where blocks begin.
BeginsBlock(ms, i) ==
  ~ \E j \in 1 .. i - 1 :
      /\ ms[j].role = "assistant" /\ ms[j].calls
      /\ \A k \in j + 1 .. i : ms[k].role = "tool"

BlockStarts(ms) == {i \in 1 .. Len(ms) : BeginsBlock(ms, i)}

\* Whole blocks from the end, as many as fit, stopping at the first that
\* does not: the position where they begin.
KeptFrom(ms, remaining) ==
  LET fits == {i \in BlockStarts(ms) :
                 MessagesTokens(SubSeq(ms, i, Len(ms))) <= remaining}
  IN  IF fits = {} THEN Len(ms) + 1 ELSE CHOOSE i \in fits : \A j \in fits : i <= j

NewestBlock(ms) ==
  SubSeq(ms, CHOOSE i \in BlockStarts(ms) : \A j \in BlockStarts(ms) : j <= i, Len(ms))

GivenOr(given, default) == IF given <= 0 THEN default ELSE given

InputBudget(toolsTokens, modelMax, maxOutput) ==
  LET budget == modelMax - maxOutput - toolsTokens - SafetyMargin
  IN  IF budget <= 0 THEN modelMax \div 2 ELSE budget

\* Bug: the block that no longer fits is cut and kept.
KeptTailCutsOldest(tail, remaining) ==
  LET from   == KeptFrom(tail, remaining)
      kept   == SubSeq(tail, from, Len(tail))
      older  == SubSeq(tail, 1, from - 1)
  IN  IF older = <<>> THEN kept
      ELSE TruncateBlock(NewestBlock(older), remaining - MessagesTokens(kept)) \o kept

\* What is kept of the messages behind the system message.
KeptTail(tail, remaining) ==
  LET from == KeptFrom(tail, remaining)
  IN  IF tail = <<>> THEN <<>>
      ELSE IF from > Len(tail) THEN TruncateBlock(NewestBlock(tail), remaining)
      ELSE SubSeq(tail, from, Len(tail))

FitMessages(ms, toolsTokens, givenModelMax, givenMaxOutput) ==
  LET modelMax == GivenOr(givenModelMax, DefaultModelMax)
      budget   == InputBudget(toolsTokens, modelMax, GivenOr(givenMaxOutput, DefaultMaxOutput))
      remaining == budget - MessageTokens(ms[1])
  IN  IF ms = <<>> THEN ms
      ELSE IF budget <= 0 THEN <<TruncateByCommon(ms[1], SafetyMargin)>>
      ELSE IF MessagesTokens(ms) <= budget THEN ms
      ELSE IF remaining <= 0 THEN <<TruncateByCommon(ms[1], budget)>>
      ELSE <<ms[1]>> \o KeptTail(Tail(ms), remaining)

\* The limits an agent works with, from those of its configuration.
AgentLimits(givenModelMax, givenMaxOutput) ==
  LET modelMax  == GivenOr(givenModelMax, DefaultModelMax)
      maxOutput == GivenOr(givenMaxOutput, DefaultMaxOutput)
  IN  [modelMax  |-> modelMax,
       maxOutput |-> IF maxOutput < modelMax THEN maxOutput
                     ELSE IF DefaultMaxOutput < modelMax THEN DefaultMaxOutput
                     ELSE modelMax \div 4]

\* Bug: the tools are left out of the sum.
LatestExceedsAlone(system, user, toolsTokens, limits) ==
  MessagesTokens(<<system, user>>) > limits.modelMax - limits.maxOutput - SafetyMargin

\* The newest message does not even fit alone: it goes to the intent router.
LatestExceeds(system, user, toolsTokens, limits) ==
  LET budget == limits.modelMax - limits.maxOutput - toolsTokens - SafetyMargin
  IN  budget <= 0 \/ MessagesTokens(<<system, user>>) > budget
-----------------------------------------------------------------------------
(* What a request to the model may carry.                                   *)

SameUpToText(m, n) == m.role = n.role /\ m.calls = n.calls

\* r is the system message and whole blocks from the end of ms, untouched; or
\* the system message and a first part of the newest block, texts perhaps cut.
SelectsFromEnd(r, ms) ==
  LET newest == NewestBlock(Tail(ms))
  IN  \/ \E i \in BlockStarts(Tail(ms)) \cup {Len(ms)} :
           r = <<ms[1]>> \o SubSeq(Tail(ms), i, Len(ms) - 1)
      \/ /\ r # <<>> /\ r[1] = ms[1]
         /\ Len(r) - 1 <= Len(newest)
         /\ \A i \in 2 .. Len(r) :
              SameUpToText(r[i], newest[i - 1]) /\ r[i].text <= newest[i - 1].text + Drift
      \/ Len(r) = 1 /\ SameUpToText(r[1], ms[1])

\* What a cut block may cost beyond the budget: the messages themselves, once
\* their texts are gone, and one drift each.
Overrun(r) == Total([i \in DOMAIN r |-> Bare(r[i]) + Drift])
=============================================================================
