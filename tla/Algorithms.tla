----------------------------- MODULE Algorithms -----------------------------
(***************************************************************************)
(* The functions without state, called on any input of a bounded size.  A   *)
(* behaviour makes one call of one of them; the state after it is the       *)
(* input, and the invariants compare what the function returns with what it *)
(* should.                                                                  *)
(***************************************************************************)
EXTENDS TokenBudget, CommonTools, Calculator, IntentRouter, Statistics, MetricWindow, Functions

CONSTANTS
  Texts,        \* tokens of the texts in a history
  MaxMessages,  \* messages behind the system message
  ToolSizes,    \* tokens of the descriptions of the tools
  Limits,       \* given model limits
  OutputLimits, \* given output limits
  Numbers,      \* in an expression
  MaxSymbols,   \* tokens of it
  Lengths,      \* characters of a text for the router
  MaxGroups,    \* groups of words in it, and patterns
  Users,        \* users that the statistics count
  Today,        \* the day a page of statistics is asked for
  MaxPast,      \* calls before that
  MaxMoves,     \* what happens while the statistics are read
  Names,        \* metrics
  Durations,    \* of their samples
  MaxRows,      \* samples in MySQL
  Rates         \* samples in a second

ASSUME InputAssumption ==
  /\ Texts \cup ToolSizes \cup Lengths \cup Durations \cup Rates \subseteq Nat
  /\ Limits \cup OutputLimits \cup Numbers \cup {Today} \subseteq Int /\ 0 \notin Rates
  /\ {MaxMessages, MaxSymbols, MaxGroups, MaxPast, MaxMoves, MaxRows} \subseteq Nat
  /\ IsFiniteSet(Users)

VARIABLE call

SeqsUpTo(S, n) == UNION {[1 .. k -> S] : k \in 0 .. n}

SetsUpTo(S, n) == {Range(f) : f \in SeqsUpTo(S, n)}

Message(role, calls, text) == [role |-> role, calls |-> calls, text |-> text]

Messages ==
  {Message("user", FALSE, t) : t \in Texts \ {0}}
    \cup {Message("assistant", TRUE, t) : t \in Texts}
    \cup {Message("assistant", FALSE, t) : t \in Texts \ {0}}
    \cup {Message("tool", FALSE, t) : t \in Texts}

\* A tool result follows a call or another result.
Histories ==
  {h \in SeqsUpTo(Messages, MaxMessages) :
     \A i \in 1 .. Len(h) :
       h[i].role = "tool" => i > 1 /\ (h[i - 1].calls \/ h[i - 1].role = "tool")}

CallFit ==
  /\ call.fn = "none"
  /\ \E h \in Histories, s \in Texts, tools \in ToolSizes, max \in Limits, out \in OutputLimits :
       call' = [fn |-> "fit", ms |-> <<Message("system", FALSE, s)>> \o h,
                tools |-> tools, modelMax |-> max, maxOutput |-> out]

Symbols == {Symbol(c) : c \in {"+", "-", "*", "/", "%", "(", ")"}}

CallEval ==
  /\ call.fn = "none"
  /\ \E s \in SeqsUpTo({Numeral(n) : n \in Numbers} \cup Symbols, MaxSymbols) :
       call' = [fn |-> "eval", s |-> s]

\* Longer expressions, of three operands some of which are in brackets.
Operands ==
  {<<Numeral(2)>>, <<Symbol("-"), Numeral(3)>>}
    \cup {<<Symbol("("), Numeral(x), Symbol(c), Numeral(3), Symbol(")")>> :
            x \in {2, 3}, c \in {"-", "%"}}

CallEvalLong ==
  /\ call.fn = "none"
  /\ \E x, y, z \in Operands, f, g \in {Symbol(c) : c \in {"+", "-", "*", "/", "%"}} :
       call' = [fn |-> "eval", s |-> x \o <<f>> \o y \o <<g>> \o z]

CallRandom ==
  /\ call.fn = "none"
  /\ \E a, b \in Int64 : call' = [fn |-> "random", a |-> a, b |-> b]

\* A text that begins with a save keyword contains a note word, and one that
\* begins with a word for binding contains that.
CallRoute ==
  /\ call.fn = "none"
  /\ \E ws \in SetsUpTo(Words, MaxGroups), fs \in SetsUpTo(Finds, MaxGroups),
       length \in Lengths, o \in Openings, status \in {"unbound", "waiting_email_code", "bound"} :
       call' = [fn |-> "route", status |-> status,
                m |-> [length |-> length, opening |-> o, finds |-> fs,
                       words |-> ws
                         \cup (IF o \in {"save:", "save ", "saveOther"} THEN {"note"} ELSE {})
                         \cup (IF o \in {"bind", "bindLatin"} THEN {o} ELSE {})]]

\* The days of the calls in the table, the oldest first: a few, or one on each
\* day that the page looks at and on the day before.
Pasts ==
  {p \in SeqsUpTo(Today - Days - 1 .. Today, MaxPast) :
     \A i, j \in 1 .. Len(p) : i < j => p[i] <= p[j]}
    \cup {[i \in 1 .. Days + 2 |-> Today - Days - 2 + i]}

CallStats ==
  /\ call.fn = "none"
  /\ \E users \in SUBSET Users, past \in Pasts,
        moves \in SeqsUpTo([kind : {"calls", "midnight"}, user : Users, before : Reads], MaxMoves) :
       /\ \A i, j \in 1 .. Len(moves) : i < j => moves[i].before <= moves[j].before
       /\ \E bound \in SUBSET users, u \in users :
            call' = [fn |-> "stats", moves |-> moves,
                     start |-> [users |-> users, bound |-> bound, day |-> Today,
                                calls |-> [i \in 1 .. Len(past) |-> [day |-> past[i], user |-> u]]]]

\* Samples of some metrics, the same number in each second.
CallWindow ==
  /\ call.fn = "none"
  /\ \E s \in SeqsUpTo([name : Names, d : Durations], MaxRows), rate \in Rates :
       call' = [fn |-> "window",
                samples |-> [i \in 1 .. Len(s) |->
                              [name |-> s[i].name, d |-> s[i].d, t |-> (i - 1) \div rate]]]

CallInit == call = [fn |-> "none"]

CallNext == \/ CallFit \/ CallEval \/ CallEvalLong \/ CallRandom
            \/ CallRoute \/ CallStats \/ CallWindow

CallSpec == CallInit /\ [][CallNext]_call
-----------------------------------------------------------------------------
Limited == AgentLimits(call.modelMax, call.maxOutput)

Sent == FitMessages(call.ms, call.tools, Limited.modelMax, Limited.maxOutput)

\* The model is sent the system message and the newest blocks of the history,
\* whole and without a gap; only when not even the newest block fits is it
\* cut, and then nothing older goes with it.
\* (FitMessagesForTokenBudgetForModel, token_budget.go:60-80)
FitSelectsFromEnd == call.fn = "fit" => SelectsFromEnd(Sent, call.ms)

Budget == InputBudget(call.tools, Limited.modelMax, Limited.maxOutput)

\* The safety margin is sent when a limit of one token leaves no budget.
Allowed == IF Budget > 0 THEN Budget ELSE SafetyMargin

\* Counted with the tokenizer of the model, what is sent fits whenever the
\* system message and the newest block do, and while the system message leaves
\* room, a cut block exceeds the budget by what its messages cost without any
\* text at most.  Of a system message that leaves none, no more is sent than
\* the budget allows in tokens of cl100k_base, which may be more in the
\* model's.  (token_budget.go:45-72, truncateBlockForModel, truncateMessage)
FitStaysInBudget ==
  call.fn = "fit" =>
    LET system == call.ms[1]
        least  == IF Len(call.ms) = 1 THEN <<>> ELSE NewestBlock(Tail(call.ms))
    IN  IF MessagesTokens(<<system>> \o least) <= Budget THEN MessagesTokens(Sent) <= Budget
        ELSE IF MessageTokens(system) < Budget THEN MessagesTokens(Sent) <= Budget + Overrun(Sent)
        ELSE MessagesTokens(Sent)
               <= Bare(system) + ModelTokens(Allowed) + SuffixTokens + Drift

\* A message that was not sent to the intent router reaches the model: in the
\* first round, where the user's message is the newest, it and the system
\* message are sent as they are.  (agent.go:193 and :252 compute with the same
\* budget, each in its own way.)
FirstRoundIsWhole ==
  call.fn = "fit" =>
    LET newest == call.ms[Len(call.ms)]
    IN  newest.role = "user" /\ ~LatestExceeds(call.ms[1], newest, call.tools, Limited)
          => Len(Sent) >= 2 /\ Sent[1] = call.ms[1] /\ Sent[Len(Sent)] = newest

\* A random number lies between the arguments, whichever is larger, and each
\* number between them can be drawn; a range beyond the limit is refused. The
\* draw panics exactly when the width of the range overflows, which passes the
\* check of the limit.  (randomNumber and secureRandInt, common_tools.go:224, :407)
RandomIsInRange ==
  call.fn = "random" =>
    LET range == Ordered(call.a, call.b)
        width == range[2] - range[1]
        drawn == RandomNumber(call.a, call.b)
    IN  IF width >= Half THEN drawn = {Panics}
        ELSE IF width > RangeLimit THEN drawn = {TooWide}
        ELSE drawn = {Number(n) : n \in range[1] .. range[2]}

\* The calculator accepts the expressions of the usual grammar, with the usual
\* precedence, operators of one level from left to right, and gives them their
\* value; a division by zero anywhere makes all of it an error.
\* (evalExpression, common_tools.go:468)
CalculatorIsRight == call.fn = "eval" => AgreesWithGrammar(call.s)

Chosen == Route(call.status, call.m)

\* A short question about the key, the state of the binding or the path is
\* made of the words that the rules look for which change them (当前绑定key,
\* 绑定状态, 保存路径), and what follows the word key is taken for one.  It is
\* answered all the same and changes nothing, unless it also has a word for a
\* reset, an unbinding or a change.  Nothing of the kind holds beyond 40
\* characters.  (The order of the rules, intent_router.go:50-112.)
AskingChangesNothing ==
  (/\ call.fn = "route" /\ call.m.length <= 40
   /\ Has(call.m, {"ownKey", "profile", "report"})
   /\ ~Has(call.m, {"reset", "unbind", "change", "saveTo"}))
    => Chosen \notin Consequential

Moment(r) == MomentAt(call.start, call.moves, r)
Page == GetStats([r \in Reads |-> Moment(r)])
\* The number above the chart counts one day more than the chart shows: while
\* nothing is recorded in between, they differ by the calls of that day.
\* (call_log.go:79, :97 against fillMissingDates, stats.go:184)
ChartIsTotalButOneDay ==
  call.fn = "stats" /\ (\A i \in 1 .. Len(call.moves) : call.moves[i].before \notin 4 .. 6) =>
    Page.calls = ChartSum(Page) + Cardinality({i \in 1 .. Len(Moment(3).calls) :
                                                 Moment(3).calls[i].day = Moment(3).day - Days})

\* A restart reads back, for each metric, a newest part of the window it had:
\* less than all of it when other metrics fill the rows that are read, and the
\* order within a second is lost.  (Recorder.Init, metrics.go:183; LoadRecent,
\* metric_sample.go:65)
RestoredIsNewest ==
  call.fn = "window" =>
    \A name \in Names : \A w \in RestoredWindows(call.samples, name) :
      LET window == WindowAfter(call.samples, name)
      IN  /\ Len(w) <= Len(window)
          /\ (\A i, j \in 1 .. Len(call.samples) :
                i # j => call.samples[i].t # call.samples[j].t) => IsSuffix(w, window)
=============================================================================
