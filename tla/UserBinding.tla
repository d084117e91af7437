------------------------------ MODULE UserBinding ------------------------------
(***************************************************************************)
(* The record of one user: the row of agent_users, the copy of it under     *)
(* md:user:... in Redis, and the copy that each ProcessMessage call loads   *)
(* once and hands to its tools.  A tool updates some columns of the row,    *)
(* the same fields of its own copy, and writes that whole copy to Redis.   *)
(*                                                                         *)
(* Requests of one user run concurrently: the platform redelivers, and a    *)
(* user writes in several conversations.                                   *)
(***************************************************************************)
EXTENDS Naturals

CONSTANTS Requests,      \* the ProcessMessage calls of this user
          Keys, Emails,  \* API keys and addresses the user may give
          Paths,         \* book, chapter and title of a save path
          DefaultPath,   \* DefaultBook, DefaultChara and no title
          LegacyPath,    \* what was the default before
          None,          \* an empty column, or no record
          MaxCalls,      \* bound on the tool calls of a request
          Disturbances   \* what may go wrong

Troubles == {"redis", "mysql", "crash"}

ASSUME ConstantsAssumption == /\ None \notin Keys \cup Emails \cup Paths
                              /\ DefaultPath \in Paths /\ LegacyPath \in Paths \ {DefaultPath}
                              /\ MaxCalls \in Nat
                              /\ Disturbances \subseteq Troubles

Statuses == {"unbound", "waiting", "bound"}
User     == [key : Keys \cup {None}, email : Emails \cup {None}, status : Statuses, path : Paths]
NoUser   == [key |-> None, email |-> None, status |-> "absent", path |-> None]
NewUser  == [key |-> None, email |-> None, status |-> "unbound", path |-> DefaultPath]

VARIABLES
  row,        \* the row of agent_users, NoUser before the first message
  cached,     \* the record in Redis, NoUser when the key is missing
  pc,         \* where each request is
  user,       \* its copy of the record
  calls,      \* tool calls it has made
  outdated,   \* history: requests whose copy predates a change of the row
  tainted     \* history: the record in Redis predates a change of the row

vars == <<row, cached, pc, user, calls, outdated, tainted>>

Stages == {"new", "read", "insert", "reread", "store", "tools", "set", "ended"}

(* Request r works on a copy of the record.                                *)
Holds(r) == pc[r] \in {"store", "tools", "set"}

(* An update of the row is on its way to Redis.                            *)
Pending == \E r \in Requests : pc[r] = "set"

TypeOK ==
  /\ row \in User \cup {NoUser} /\ cached \in User \cup {NoUser}
  /\ pc \in [Requests -> Stages]
  /\ user \in [Requests -> User \cup {NoUser}]
  /\ \A r \in Requests : Holds(r) => user[r] \in User
  /\ calls \in [Requests -> 0 .. MaxCalls]
  /\ outdated \subseteq Requests /\ tainted \in BOOLEAN

Init ==
  /\ row = NoUser /\ cached = NoUser
  /\ pc = [r \in Requests |-> "new"]
  /\ user = [r \in Requests |-> NoUser]
  /\ calls = [r \in Requests |-> 0]
  /\ outdated = {} /\ tainted = FALSE

May(trouble) == trouble \in Disturbances
Goto(r, stage) == pc' = [pc EXCEPT ![r] = stage]
Hold(r, u) == user' = [user EXCEPT ![r] = u]

-------------------------------------------------------------------------------
(* Loading the record.                                                     *)

(* cache.GetUser: a hit is taken as it is, anything else asks MySQL.        *)
GetUser(r) ==
  /\ pc[r] = "new"
  /\ \/ /\ cached # NoUser
        /\ Hold(r, cached) /\ Goto(r, "tools")
        /\ outdated' = IF tainted \/ Pending THEN outdated \cup {r} ELSE outdated
     \/ /\ cached = NoUser \/ May("redis")
        /\ Goto(r, "read")
        /\ UNCHANGED <<user, outdated>>
  /\ UNCHANGED <<row, cached, calls, tainted>>

(* UserRepo.Get, before and after the INSERT; an error ends the request.    *)
ReadRow(r) ==
  /\ pc[r] \in {"read", "reread"}
  /\ \/ row # NoUser /\ Hold(r, row) /\ Goto(r, "store")
     \/ pc[r] = "read" /\ row = NoUser /\ Goto(r, "insert") /\ UNCHANGED user
     \/ May("mysql") /\ Goto(r, "ended") /\ UNCHANGED user
  /\ UNCHANGED <<row, cached, calls, outdated, tainted>>

(* Bug: the INSERT replaces a row that another request created.             *)
InsertReplaces(r) ==
  /\ pc[r] = "insert"
  /\ row' = NewUser /\ Goto(r, "reread")
  /\ UNCHANGED <<cached, user, calls, outdated, tainted>>

(* INSERT IGNORE; an error, even after it took effect, ends the request.    *)
InsertUser(r) ==
  /\ pc[r] = "insert"
  /\ \/ row' = (IF row = NoUser THEN NewUser ELSE row) /\ Goto(r, "reread")
     \/ May("mysql") /\ row' \in {row, IF row = NoUser THEN NewUser ELSE row} /\ Goto(r, "ended")
  /\ UNCHANGED <<cached, user, calls, outdated, tainted>>

(* SetUser of the copy of r; with an error, it may have taken effect.       *)
SetUser(r) == cached' = user[r] /\ tainted' = (r \in outdated)

(* What was read from MySQL goes to Redis; an error is only logged.         *)
StoreUser(r) ==
  /\ pc[r] = "store"
  /\ SetUser(r) \/ (May("redis") /\ UNCHANGED <<cached, tainted>>)
  /\ Goto(r, "tools")
  /\ UNCHANGED <<row, user, calls, outdated>>

-------------------------------------------------------------------------------
(* The tools that change the record.  Each has the columns its UPDATE sets  *)
(* and the fields it sets in the copy; they differ for the email only.      *)

UpdateAPIKeyAndStatus(u, k) == [u EXCEPT !.key = k, !.status = "bound"]
UpdateEmailAndStatus(u, e) == [u EXCEPT !.email = e, !.status = "waiting"]
UpdateSavePath(u, p) == [u EXCEPT !.path = p]

(* Bug: the address is left behind.                                         *)
ClearKeyOnly(u) == [u EXCEPT !.key = None, !.status = "unbound"]

ClearBinding(u) == [u EXCEPT !.key = None, !.email = None, !.status = "unbound"]

(* A tool's UPDATE turns the row into v, and the tool its copy into u.      *)
(* After an error, which may come although the row has changed, the copy    *)
(* and Redis keep what they had.                                           *)
Update(r, v, u) ==
  /\ pc[r] = "tools" /\ calls[r] < MaxCalls
  /\ calls' = [calls EXCEPT ![r] = @ + 1]
  /\ \/ /\ row' = v
        /\ Hold(r, u) /\ Goto(r, "set")
        /\ outdated' = outdated \cup {q \in Requests \ {r} : Holds(q)}
        /\ UNCHANGED tainted
     \/ /\ May("mysql") /\ row' = v
        /\ outdated' = outdated \cup {q \in Requests : Holds(q)}
        /\ tainted' = TRUE
        /\ UNCHANGED <<user, pc>>
     \/ May("mysql") /\ UNCHANGED <<row, user, pc, outdated, tainted>>
  /\ UNCHANGED cached

BindMiaodiKey(r) ==
  \E k \in Keys : Update(r, UpdateAPIKeyAndStatus(row, k), [user[r] EXCEPT !.key = k, !.status = "bound"])

(* The code has been sent: a bound user becomes a waiting one, key and all. *)
SendMiaodiEmailCode(r) ==
  \E e \in Emails : Update(r, UpdateEmailAndStatus(row, e), [user[r] EXCEPT !.email = e, !.status = "waiting"])

(* The address comes from the call or else from the copy; it reaches Redis, *)
(* and MySQL not at all.                                                   *)
BindMiaodiByEmailCode(r) ==
  \E e \in (Emails \cup {user[r].email}) \ {None}, k \in Keys :
    Update(r, UpdateAPIKeyAndStatus(row, k), [user[r] EXCEPT !.key = k, !.email = e, !.status = "bound"])

SetSavePath(r) ==
  \E p \in Paths : Update(r, UpdateSavePath(row, p), [user[r] EXCEPT !.path = p])

UnbindMiaodiKey(r) ==
  /\ user[r].status = "bound" \/ user[r].key # None
  /\ Update(r, ClearBinding(row), [user[r] EXCEPT !.key = None, !.email = None, !.status = "unbound"])

(* SetUser at the end of a tool; an error is only logged.                   *)
SetAfterTool(r) ==
  /\ pc[r] = "set"
  /\ SetUser(r) \/ (May("redis") /\ tainted' = TRUE /\ UNCHANGED cached)
  /\ Goto(r, "tools")
  /\ UNCHANGED <<row, user, calls, outdated>>

(* Bug: the note is saved for a user who is only waiting for a code.        *)
SaveNoteUnchecked(r) ==
  /\ pc[r] = "tools" /\ calls[r] < MaxCalls
  /\ calls' = [calls EXCEPT ![r] = @ + 1]
  /\ UNCHANGED <<row, cached, pc, user, outdated, tainted>>

(* save_text_note and the annual report use the account of the copy.        *)
SaveTextNote(r) ==
  /\ pc[r] = "tools" /\ calls[r] < MaxCalls
  /\ user[r].status = "bound" /\ user[r].key # None
  /\ calls' = [calls EXCEPT ![r] = @ + 1]
  /\ UNCHANGED <<row, cached, pc, user, outdated, tainted>>

EndRequest(r) ==
  /\ pc[r] = "tools"
  /\ Goto(r, "ended")
  /\ UNCHANGED <<row, cached, user, calls, outdated, tainted>>

Tool(r) == \/ BindMiaodiKey(r) \/ SendMiaodiEmailCode(r) \/ BindMiaodiByEmailCode(r)
           \/ SetSavePath(r) \/ UnbindMiaodiKey(r) \/ SetAfterTool(r) \/ SaveTextNote(r)

Request(r) == \/ GetUser(r) \/ ReadRow(r) \/ InsertUser(r) \/ StoreUser(r)
              \/ Tool(r) \/ EndRequest(r)

-------------------------------------------------------------------------------
(* Redis drops the record when its TTL is over, or for want of memory.      *)
Expire ==
  /\ cached # NoUser
  /\ cached' = NoUser /\ tainted' = FALSE
  /\ UNCHANGED <<row, pc, user, calls, outdated>>

(* migrateLegacyDefaults, at every start: it cannot tell a path that the    *)
(* user has chosen from the default of old.                                *)
Migrated(u) == IF u.path = LegacyPath THEN [u EXCEPT !.path = DefaultPath] ELSE u

(* The process dies with its requests.  The next one migrates the rows; then *)
(* seedCache loads the row of a user who was active, unless MySQL or Redis  *)
(* is in trouble.                                                          *)
Restart ==
  /\ May("crash")
  /\ pc' = [r \in Requests |-> IF pc[r] = "new" THEN "new" ELSE "ended"]
  /\ row' = Migrated(row)
  /\ \/ row # NoUser /\ cached' = row' /\ tainted' = FALSE
     \/ tainted' = (tainted \/ Pending \/ row' # row) /\ UNCHANGED cached
  /\ UNCHANGED <<user, calls, outdated>>

Next == (\E r \in Requests : Request(r)) \/ Expire \/ Restart

Spec == Init /\ [][Next]_vars

-------------------------------------------------------------------------------
(* Two records name the same account and save to the same place.            *)
SameBinding(u, v) == u.key = v.key /\ u.status = v.status /\ u.path = v.path

WellFormed(u) ==
  /\ u.status = "bound"   => u.key # None
  /\ u.status = "waiting" => u.email # None
  /\ u.status \in {"unbound", "absent"} => u.key = None /\ u.email = None

(* However updates of columns and writes of whole records interleave, no    *)
(* store and no request ever has a bound user without a key, a waiting one  *)
(* without an address, or an unbound one with either.                      *)
BindingConsistent ==
  WellFormed(row) /\ WellFormed(cached) /\ \A r \in Requests : WellFormed(user[r])

(* Redis disagrees with MySQL about the binding only while a tool is        *)
(* between its two writes, or when the last writer of Redis had loaded its  *)
(* copy before another request changed the row, or when a write failed or   *)
(* the process died between the two, or when a start changed the row and    *)
(* loaded nothing into Redis.                                              *)
WrongCacheHasCause ==
  cached # NoUser => tainted \/ Pending \/ SameBinding(cached, row)

(* What the two rest on: a request knows the binding, unless another one    *)
(* changed it after this one loaded its copy, or Redis was behind then ...  *)
CopyHasCause ==
  \A r \in Requests : Holds(r) => r \in outdated \/ SameBinding(user[r], row)

(* ... and there is no copy of a user that MySQL does not have.             *)
CopiesHaveRow == cached # NoUser \/ (\E r \in Requests : Holds(r)) => row # NoUser

IInv == TypeOK /\ BindingConsistent /\ WrongCacheHasCause /\ CopyHasCause /\ CopiesHaveRow

(* A note goes to the account and place that MySQL has for the user, unless *)
(* another request changed them after this one loaded its copy or before    *)
(* Redis heard of it.                                                      *)
NoteGoesHome ==
  [][\A r \in Requests : SaveTextNote(r) =>
       /\ user[r].key # None
       /\ r \in outdated \/ SameBinding(user[r], row)]_vars
===============================================================================
