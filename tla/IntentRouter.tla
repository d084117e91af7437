---------------------------- MODULE IntentRouter ----------------------------
(***************************************************************************)
(* The router of internal/service/intent_router.go, which answers a message *)
(* that is too long for the language model by a tool of its own choice: the *)
(* first rule that applies wins.  A text is abstracted to what the rules    *)
(* look at: its length in characters after normalisation, the groups of     *)
(* words it contains, how it begins, and which patterns are found in it.    *)
(***************************************************************************)
EXTENDS Integers, SequencesExt

\* The groups of words.  "note" is one of 保存, 记录, 笔记; "saveTo" is 保存到;
\* "compute" is 计算, "reckon" one of 算一下, 等于多少, "amount" one of 统计, 多少;
\* "bind" is 绑定 and "bindLatin" the word in Latin letters; "exactHelp" stands
\* for the texts that are a help word and nothing else.
Words == {"reset", "unbind", "exactHelp", "help", "report", "ownKey", "change", "profile",
          "recent", "note", "ask", "yesterday", "today", "tomorrow", "dateWord",
          "dayShift", "clock", "compute", "reckon", "random", "choose", "count",
          "token", "amount", "bind", "bindLatin", "mailbox", "send", "code",
          "path", "saveTo", "image"}

\* How a text begins: with 保存 and a colon, a space or anything else behind
\* it; with another of the save keywords (with a colon or not); with 绑定 or its
\* Latin form and something behind it; or with none of these.
Openings == {"save:", "save ", "saveOther", "please:", "please", "bind", "bindLatin", "other"}

\* What the patterns find: an operator of a calculation, two options or more,
\* text behind a colon, a key behind its name, an email, a verification code,
\* a path with book and chapter, a URL, a date; and what makes a content look
\* like a question.
Finds == {"operator", "options", "body", "key", "email", "digits", "bookAndChapter",
          "url", "date", "question"}

Has(m, words) == m.words \cap words # {}
Found(m, f)   == f \in m.finds

ResetIntent(m)  == m.length <= 30 /\ Has(m, {"reset"})
UnbindIntent(m) == m.length <= 30 /\ Has(m, {"unbind"})
HelpIntent(m)   == Has(m, {"exactHelp"}) \/ (m.length <= 30 /\ Has(m, {"help"}))
ReportIntent(m) == m.length <= 40 /\ Has(m, {"report"})

\* Bug: the limit of the rules before it.
KeyIntentShorter(m) == m.length <= 30 /\ Has(m, {"ownKey"})

KeyIntent(m)    == m.length <= 40 /\ Has(m, {"ownKey"})
ProfileIntent(m) ==
  m.length <= 40 /\ ~Has(m, {"change", "saveTo"}) /\ Has(m, {"profile"})
RecentIntent(m) == Has(m, {"recent"}) /\ Has(m, {"note"})
DateCalculateIntent(m) ==
  m.length <= 60 /\ ((Has(m, {"tomorrow", "yesterday"}) /\ Has(m, {"dateWord"})) \/ Has(m, {"dayShift"}))
CurrentTimeIntent(m) == m.length <= 40 /\ Has(m, {"clock"})
CalculateIntent(m) == Has(m, {"compute", "reckon"}) /\ Found(m, "operator")
RandomIntent(m)    == Has(m, {"random"})
ChooseIntent(m)    == Has(m, {"choose"}) /\ Found(m, "options")
TextStatsIntent(m) == Has(m, {"count"}) /\ Found(m, "body")
TokenCountIntent(m) ==
  Has(m, {"token"}) /\ Has(m, {"compute", "amount"}) /\ Found(m, "body")
BindIntent(m) ==
  /\ Has(m, {"bind", "bindLatin"}) /\ ~Found(m, "email") /\ ~Has(m, {"mailbox"})
  /\ Found(m, "key") \/ m.opening \in {"bind", "bindLatin"}
EmailCodeIntent(status, m) ==
  /\ ~Has(m, {"send"}) /\ ~(Has(m, {"mailbox"}) /\ Found(m, "email"))
  /\ status = "waiting_email_code" \/ Has(m, {"code"})
  /\ Found(m, "digits")
SendEmailIntent(status, m) ==
  /\ Found(m, "email")
  /\ Has(m, {"mailbox", "code", "bind"}) \/ status # "bound"
PathIntent(m)  == Has(m, {"path", "saveTo"}) /\ Found(m, "bookAndChapter")
ImageIntent(m) == Has(m, {"image"}) /\ Found(m, "url")

\* 保存 asks for a delimiter; a colon makes the rest a content even when it
\* looks like a question.
SaveTextIntent(m) ==
  \/ m.opening \in {"save:", "please:"}
  \/ m.opening \in {"save ", "please"} /\ ~Found(m, "question")

DateQueryIntent(m) ==
  Has(m, {"note"}) /\ Has(m, {"ask"}) /\ (Has(m, {"yesterday", "today"}) \/ Found(m, "date"))

\* The rules in their order.
Route(status, m) ==
  IF ResetIntent(m)                    THEN "reset_conversation"
  ELSE IF UnbindIntent(m)              THEN "unbind_miaodi_key"
  ELSE IF HelpIntent(m)                THEN "show_help"
  ELSE IF ReportIntent(m)              THEN "get_miaodi_annual_report"
  ELSE IF KeyIntent(m)                 THEN "get_miaodi_key"
  ELSE IF ProfileIntent(m)             THEN "get_user_profile"
  ELSE IF RecentIntent(m)              THEN "list_recent_notes"
  ELSE IF DateCalculateIntent(m)       THEN "date_calculate"
  ELSE IF CurrentTimeIntent(m)         THEN "get_current_time"
  ELSE IF CalculateIntent(m)           THEN "calculate"
  ELSE IF RandomIntent(m)              THEN "random_number"
  ELSE IF ChooseIntent(m)              THEN "choose_option"
  ELSE IF TextStatsIntent(m)           THEN "text_stats"
  ELSE IF TokenCountIntent(m)          THEN "count_tokens"
  ELSE IF BindIntent(m)                THEN "bind_miaodi_key"
  ELSE IF EmailCodeIntent(status, m)   THEN "bind_miaodi_by_email_code"
  ELSE IF SendEmailIntent(status, m)   THEN "send_miaodi_email_code"
  ELSE IF PathIntent(m)                THEN "set_save_path"
  ELSE IF ImageIntent(m)               THEN "save_image_note"
  ELSE IF SaveTextIntent(m)            THEN "save_text_note"
  ELSE IF DateQueryIntent(m)           THEN "query_notes_by_date"
  ELSE "none"

\* Tools that change what the user has stored or how the account is bound.
Consequential == {"reset_conversation", "unbind_miaodi_key", "bind_miaodi_key",
                  "bind_miaodi_by_email_code", "send_miaodi_email_code", "set_save_path"}
=============================================================================
