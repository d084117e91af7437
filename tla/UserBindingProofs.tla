--------------------------- MODULE UserBindingProofs ---------------------------
(***************************************************************************)
(* Proofs about UserBinding for any number of requests, any keys, addresses *)
(* and paths, and any disturbances.                                        *)
(***************************************************************************)
EXTENDS UserBinding, TLAPS

LEMMA NoUserIsNoUser == NoUser \notin User
  BY DEF NoUser, User, Statuses

LEMMA NewUserIsUser == NewUser \in User /\ WellFormed(NewUser)
  BY ConstantsAssumption DEF NewUser, User, Statuses, WellFormed

LEMMA NoUserWellFormed == WellFormed(NoUser)
  BY DEF NoUser, WellFormed

LEMMA MigratedIsUser ==
  /\ Migrated(NoUser) = NoUser
  /\ \A u \in User : Migrated(u) \in User /\ (WellFormed(u) => WellFormed(Migrated(u)))
BY ConstantsAssumption DEF Migrated, NoUser, User, WellFormed

LEMMA SameAsItself == \A u : SameBinding(u, u)
  BY DEF SameBinding

-------------------------------------------------------------------------------
(* The tools.  A tool turns the row into v and the copy of the request into *)
(* u; it keeps both well formed, and keeps them alike if they were.         *)
Tools(v, u, row0, user0) ==
  /\ v \in User /\ u \in User
  /\ WellFormed(row0) => WellFormed(v)
  /\ WellFormed(user0) => WellFormed(u)
  /\ SameBinding(user0, row0) => SameBinding(u, v)

LEMMA ToolIsUpdate ==
  ASSUME TypeOK, NEW r \in Requests, Holds(r), row # NoUser,
         \/ BindMiaodiKey(r) \/ SendMiaodiEmailCode(r) \/ BindMiaodiByEmailCode(r)
         \/ SetSavePath(r) \/ UnbindMiaodiKey(r)
  PROVE  \E v, u : Update(r, v, u) /\ Tools(v, u, row, user[r])
<1> USE ConstantsAssumption DEF Tools, User, Statuses, WellFormed, SameBinding
<1>u. user[r] \in User /\ row \in User
  BY DEF TypeOK
<1>1. CASE BindMiaodiKey(r)
  <2>1. PICK k \in Keys : Update(r, UpdateAPIKeyAndStatus(row, k), [user[r] EXCEPT !.key = k, !.status = "bound"])
    BY <1>1 DEF BindMiaodiKey
  <2>2. Tools(UpdateAPIKeyAndStatus(row, k), [user[r] EXCEPT !.key = k, !.status = "bound"], row, user[r])
    BY <1>u DEF UpdateAPIKeyAndStatus
  <2> QED BY <2>1, <2>2
<1>2. CASE SendMiaodiEmailCode(r)
  <2>1. PICK e \in Emails : Update(r, UpdateEmailAndStatus(row, e), [user[r] EXCEPT !.email = e, !.status = "waiting"])
    BY <1>2 DEF SendMiaodiEmailCode
  <2>2. Tools(UpdateEmailAndStatus(row, e), [user[r] EXCEPT !.email = e, !.status = "waiting"], row, user[r])
    BY <1>u DEF UpdateEmailAndStatus
  <2> QED BY <2>1, <2>2
<1>3. CASE BindMiaodiByEmailCode(r)
  <2>1. PICK e \in (Emails \cup {user[r].email}) \ {None}, k \in Keys :
          Update(r, UpdateAPIKeyAndStatus(row, k), [user[r] EXCEPT !.key = k, !.email = e, !.status = "bound"])
    BY <1>3 DEF BindMiaodiByEmailCode
  <2>2. Tools(UpdateAPIKeyAndStatus(row, k), [user[r] EXCEPT !.key = k, !.email = e, !.status = "bound"], row, user[r])
    BY <1>u DEF UpdateAPIKeyAndStatus
  <2> QED BY <2>1, <2>2
<1>4. CASE SetSavePath(r)
  <2>1. PICK p \in Paths : Update(r, UpdateSavePath(row, p), [user[r] EXCEPT !.path = p])
    BY <1>4 DEF SetSavePath
  <2>2. Tools(UpdateSavePath(row, p), [user[r] EXCEPT !.path = p], row, user[r])
    BY <1>u DEF UpdateSavePath
  <2> QED BY <2>1, <2>2
<1>5. CASE UnbindMiaodiKey(r)
  <2>1. Update(r, ClearBinding(row), [user[r] EXCEPT !.key = None, !.email = None, !.status = "unbound"])
    BY <1>5 DEF UnbindMiaodiKey
  <2>2. Tools(ClearBinding(row), [user[r] EXCEPT !.key = None, !.email = None, !.status = "unbound"], row, user[r])
    BY <1>u DEF ClearBinding
  <2> QED BY <2>1, <2>2
<1> QED BY <1>1, <1>2, <1>3, <1>4, <1>5

LEMMA UpdateKeepsIInv ==
  ASSUME IInv, NEW r \in Requests, Holds(r), NEW v, NEW u,
         Update(r, v, u), Tools(v, u, row, user[r])
  PROVE  IInv'
<1> USE DEF IInv, TypeOK
<1>1. v \in User /\ u \in User /\ WellFormed(v) /\ WellFormed(u)
  BY DEF Tools, BindingConsistent
<1>2. NoUser \notin User
  BY NoUserIsNoUser
<1>calls. calls' \in [Requests -> 0 .. MaxCalls]
  <2>1. calls[r] + 1 \in 0 .. MaxCalls
    BY ConstantsAssumption DEF Update
  <2> QED BY <2>1 DEF Update
<1>3. CASE /\ row' = v /\ Hold(r, u) /\ Goto(r, "set")
           /\ outdated' = outdated \cup {q \in Requests \ {r} : Holds(q)}
           /\ UNCHANGED <<tainted, cached>>
  <2>1. /\ user' = [user EXCEPT ![r] = u] /\ pc' = [pc EXCEPT ![r] = "set"]
    BY <1>3 DEF Hold, Goto
  <2>2. \A q \in Requests \ {r} : Holds(q)' = Holds(q) /\ user'[q] = user[q]
    BY <2>1 DEF Holds
  <2>3. TypeOK'
    BY <1>1, <1>3, <1>calls, <2>1, <2>2 DEF Stages
  <2>4. BindingConsistent'
    BY <1>1, <1>3, <2>1 DEF BindingConsistent
  <2>5. Pending'
    BY <2>1 DEF Pending
  <2>6. CopyHasCause'
    BY <1>3, <2>1, <2>2 DEF CopyHasCause, Tools
  <2> QED BY <1>1, <1>2, <1>3, <2>3, <2>4, <2>5, <2>6 DEF WrongCacheHasCause, CopiesHaveRow
<1>4. CASE /\ row' = v /\ outdated' = outdated \cup {q \in Requests : Holds(q)}
           /\ tainted' = TRUE /\ UNCHANGED <<user, pc, cached>>
  <2>1. \A q \in Requests : Holds(q)' = Holds(q)
    BY <1>4 DEF Holds
  <2>2. TypeOK'
    BY <1>1, <1>4, <1>calls, <2>1
  <2>3. BindingConsistent'
    BY <1>1, <1>4 DEF BindingConsistent
  <2> QED BY <1>1, <1>2, <1>4, <2>1, <2>2, <2>3 DEF WrongCacheHasCause, CopyHasCause, CopiesHaveRow
<1>5. CASE UNCHANGED <<row, user, pc, outdated, tainted, cached>>
  <2>1. \A q \in Requests : Holds(q)' = Holds(q)
    BY <1>5 DEF Holds
  <2> QED BY <1>5, <1>calls, <2>1
        DEF BindingConsistent, WrongCacheHasCause, CopyHasCause, CopiesHaveRow, Pending
<1> QED BY <1>3, <1>4, <1>5 DEF Update

-------------------------------------------------------------------------------
(* The steps of one request other than its tools.                          *)

LEMMA GetUserStep == ASSUME IInv, NEW r \in Requests, GetUser(r) PROVE IInv'
<1> USE DEF IInv, TypeOK
<1>1. CASE /\ cached # NoUser /\ Hold(r, cached) /\ Goto(r, "tools")
           /\ outdated' = IF tainted \/ Pending THEN outdated \cup {r} ELSE outdated
  <2>1. user' = [user EXCEPT ![r] = cached] /\ pc' = [pc EXCEPT ![r] = "tools"]
    BY <1>1 DEF Hold, Goto
  <2>2. \A q \in Requests \ {r} : Holds(q)' = Holds(q) /\ user'[q] = user[q]
    BY <2>1 DEF Holds
  <2>3. cached \in User
    BY <1>1
  <2>4. UNCHANGED <<row, cached, tainted, calls>>
    BY DEF GetUser
  <2>5. TypeOK'
    BY <1>1, <2>1, <2>2, <2>3, <2>4 DEF Stages
  <2>6. BindingConsistent'
    BY <2>1, <2>4 DEF BindingConsistent
  <2>7. Pending' = Pending
    BY <2>1 DEF Pending, GetUser
  <2>8. CopyHasCause'
    BY <1>1, <2>1, <2>2, <2>4 DEF CopyHasCause, WrongCacheHasCause
  <2> QED BY <1>1, <2>4, <2>5, <2>6, <2>7, <2>8 DEF WrongCacheHasCause, CopiesHaveRow
<1>2. CASE Goto(r, "read") /\ UNCHANGED <<user, outdated>>
  <2>1. \A q \in Requests : Holds(q)' = Holds(q)
    BY <1>2 DEF Holds, Goto, GetUser
  <2>2. Pending' = Pending
    BY <1>2 DEF Pending, Goto, GetUser
  <2> QED BY <1>2, <2>1, <2>2
        DEF GetUser, Goto, Stages, BindingConsistent, WrongCacheHasCause, CopyHasCause, CopiesHaveRow
<1> QED BY <1>1, <1>2 DEF GetUser

LEMMA ReadRowStep == ASSUME IInv, NEW r \in Requests, ReadRow(r) PROVE IInv'
<1> USE DEF IInv, TypeOK
<1>0. UNCHANGED <<row, cached, calls, outdated, tainted>>
  BY DEF ReadRow
<1>1. CASE row # NoUser /\ Hold(r, row) /\ Goto(r, "store")
  <2>1. user' = [user EXCEPT ![r] = row] /\ pc' = [pc EXCEPT ![r] = "store"]
    BY <1>1 DEF Hold, Goto
  <2>2. \A q \in Requests \ {r} : Holds(q)' = Holds(q) /\ user'[q] = user[q]
    BY <2>1 DEF Holds
  <2>3. TypeOK'
    BY <1>0, <1>1, <2>1, <2>2 DEF Stages
  <2>4. BindingConsistent'
    BY <1>0, <2>1 DEF BindingConsistent
  <2>5. Pending' = Pending
    BY <2>1 DEF Pending, ReadRow
  <2>6. CopyHasCause'
    BY <1>0, <2>1, <2>2, SameAsItself DEF CopyHasCause
  <2> QED BY <1>0, <1>1, <2>3, <2>4, <2>5, <2>6 DEF WrongCacheHasCause, CopiesHaveRow
<1>2. CASE UNCHANGED user /\ (Goto(r, "insert") \/ Goto(r, "ended"))
  <2>1. \A q \in Requests : Holds(q)' = Holds(q)
    BY <1>2 DEF Holds, Goto, ReadRow
  <2>2. Pending' = Pending
    BY <1>2 DEF Pending, Goto, ReadRow
  <2> QED BY <1>0, <1>2, <2>1, <2>2
        DEF Goto, Stages, BindingConsistent, WrongCacheHasCause, CopyHasCause, CopiesHaveRow
<1> QED BY <1>1, <1>2 DEF ReadRow

LEMMA InsertUserStep == ASSUME IInv, NEW r \in Requests, InsertUser(r) PROVE IInv'
<1> USE DEF IInv, TypeOK
<1>1. /\ row' = row \/ (row = NoUser /\ row' = NewUser)
      /\ Goto(r, "reread") \/ Goto(r, "ended")
      /\ UNCHANGED <<cached, user, calls, outdated, tainted>>
  BY DEF InsertUser
<1>2. \A q \in Requests : Holds(q)' = Holds(q)
  BY <1>1 DEF Holds, Goto, InsertUser
<1>3. Pending' = Pending
  BY <1>1 DEF Pending, Goto, InsertUser
<1>4. TypeOK'
  BY <1>1, <1>2, NewUserIsUser DEF Goto, Stages
<1>5. BindingConsistent'
  BY <1>1, NewUserIsUser DEF BindingConsistent
<1>6. WrongCacheHasCause' /\ CopyHasCause' /\ CopiesHaveRow'
  BY <1>1, <1>2, <1>3, NewUserIsUser, NoUserIsNoUser DEF WrongCacheHasCause, CopyHasCause, CopiesHaveRow
<1> QED BY <1>4, <1>5, <1>6

(* A copy goes to Redis, or the command fails, which only StoreUser may     *)
(* leave without a trace.                                                  *)
LEMMA SetUserStep ==
  ASSUME IInv, NEW r \in Requests, pc[r] \in {"store", "set"}, Goto(r, "tools"),
         UNCHANGED <<row, user, calls, outdated>>,
         \/ SetUser(r)
         \/ UNCHANGED cached /\ tainted' = TRUE
         \/ UNCHANGED <<cached, tainted>> /\ pc[r] = "store"
  PROVE  IInv'
<1> USE DEF IInv, TypeOK
<1>1. pc' = [pc EXCEPT ![r] = "tools"]
  BY DEF Goto
<1>2. \A q \in Requests : Holds(q)' = Holds(q)
  BY <1>1 DEF Holds
<1>3. Holds(r)
  BY DEF Holds
<1>4. CASE SetUser(r)
  <2>1. user[r] \in User /\ cached' = user[r] /\ tainted' = (r \in outdated)
    BY <1>3, <1>4 DEF SetUser
  <2>2. TypeOK'
    BY <1>1, <1>2, <2>1 DEF Stages
  <2>3. BindingConsistent'
    BY <2>1 DEF BindingConsistent
  <2>4. WrongCacheHasCause'
    BY <1>3, <2>1 DEF WrongCacheHasCause, CopyHasCause
  <2>5. CopyHasCause'
    BY <1>2 DEF CopyHasCause
  <2>6. CopiesHaveRow'
    BY <1>2, <1>3 DEF CopiesHaveRow
  <2> QED BY <2>2, <2>3, <2>4, <2>5, <2>6
<1>5. CASE UNCHANGED cached /\ tainted' = TRUE
  BY <1>1, <1>2, <1>5 DEF Stages, BindingConsistent, WrongCacheHasCause, CopyHasCause, CopiesHaveRow
<1>6. CASE UNCHANGED <<cached, tainted>> /\ pc[r] = "store"
  <2>1. Pending' = Pending
    BY <1>1, <1>6 DEF Pending
  <2> QED BY <1>1, <1>2, <1>6, <2>1
        DEF Stages, BindingConsistent, WrongCacheHasCause, CopyHasCause, CopiesHaveRow
<1> QED BY <1>4, <1>5, <1>6

LEMMA QuietStep ==
  ASSUME IInv, NEW r \in Requests, SaveTextNote(r) \/ EndRequest(r)
  PROVE  IInv'
<1> USE DEF IInv, TypeOK
<1>1. UNCHANGED <<row, cached, user, outdated, tainted>>
  BY DEF SaveTextNote, EndRequest
<1>2. calls' \in [Requests -> 0 .. MaxCalls]
  <2>1. calls[r] < MaxCalls => calls[r] + 1 \in 0 .. MaxCalls
    BY ConstantsAssumption
  <2> QED BY <2>1 DEF SaveTextNote, EndRequest
<1>3. /\ pc' \in [Requests -> Stages]
      /\ \A q \in Requests : Holds(q)' => Holds(q)
  BY DEF SaveTextNote, EndRequest, Goto, Stages, Holds
<1>4. Pending' = Pending
  BY DEF SaveTextNote, EndRequest, Goto, Pending
<1> QED BY <1>1, <1>2, <1>3, <1>4
      DEF BindingConsistent, WrongCacheHasCause, CopyHasCause, CopiesHaveRow

LEMMA RequestStep == ASSUME IInv, NEW r \in Requests, Request(r) PROVE IInv'
<1>1. CASE GetUser(r)
  BY <1>1, GetUserStep
<1>2. CASE ReadRow(r)
  BY <1>2, ReadRowStep
<1>3. CASE InsertUser(r)
  BY <1>3, InsertUserStep
<1>4. CASE StoreUser(r)
  BY <1>4, SetUserStep DEF StoreUser
<1>5. CASE SetAfterTool(r)
  BY <1>5, SetUserStep DEF SetAfterTool
<1>6. CASE SaveTextNote(r) \/ EndRequest(r)
  BY <1>6, QuietStep
<1>7. CASE \/ BindMiaodiKey(r) \/ SendMiaodiEmailCode(r) \/ BindMiaodiByEmailCode(r)
           \/ SetSavePath(r) \/ UnbindMiaodiKey(r)
  <2>1. pc[r] = "tools"
    BY <1>7 DEF BindMiaodiKey, SendMiaodiEmailCode, BindMiaodiByEmailCode, SetSavePath,
                UnbindMiaodiKey, Update
  <2>2. Holds(r) /\ row # NoUser
    BY <2>1 DEF IInv, Holds, CopiesHaveRow
  <2>3. PICK v, u : Update(r, v, u) /\ Tools(v, u, row, user[r])
    BY <1>7, <2>2, ToolIsUpdate DEF IInv
  <2> QED BY <2>2, <2>3, UpdateKeepsIInv
<1> QED BY <1>1, <1>2, <1>3, <1>4, <1>5, <1>6, <1>7 DEF Request, Tool

-------------------------------------------------------------------------------
LEMMA InitIInv == Init => IInv
<1> SUFFICES ASSUME Init PROVE IInv
  OBVIOUS
<1>1. TypeOK
  <2>1. 0 \in 0 .. MaxCalls
    BY ConstantsAssumption
  <2> QED BY <2>1 DEF Init, TypeOK, Stages, Holds
<1>2. BindingConsistent
  BY NoUserWellFormed DEF Init, BindingConsistent
<1> QED BY <1>1, <1>2 DEF Init, IInv, WrongCacheHasCause, CopyHasCause, CopiesHaveRow, Holds

LEMMA NextIInv == IInv /\ [Next]_vars => IInv'
<1> SUFFICES ASSUME IInv, [Next]_vars PROVE IInv'
  OBVIOUS
<1>1. ASSUME NEW r \in Requests, Request(r) PROVE IInv'
  BY <1>1, RequestStep
<1>2. CASE Expire
  BY <1>2, NoUserWellFormed
     DEF Expire, IInv, TypeOK, BindingConsistent, WrongCacheHasCause, CopyHasCause, CopiesHaveRow, Holds
<1>3. CASE Restart
  <2>1. /\ pc' \in [Requests -> {"new", "ended"}] /\ row' = Migrated(row)
        /\ UNCHANGED <<user, calls, outdated>>
    BY <1>3 DEF Restart
  <2>2. \A r \in Requests : ~Holds(r)'
    BY <2>1 DEF Holds
  <2>3. /\ row' \in User \cup {NoUser} /\ (row # NoUser => row' \in User /\ row' # NoUser)
        /\ WellFormed(row')
    BY <2>1, MigratedIsUser, NoUserIsNoUser DEF IInv, TypeOK, BindingConsistent
  <2>4. CASE row # NoUser /\ cached' = row' /\ tainted' = FALSE
    BY <2>1, <2>2, <2>3, <2>4, SameAsItself
       DEF IInv, TypeOK, Stages, BindingConsistent, WrongCacheHasCause, CopyHasCause, CopiesHaveRow
  <2>5. CASE tainted' = (tainted \/ Pending \/ row' # row) /\ UNCHANGED cached
    <3>1. TypeOK'
      BY <2>1, <2>2, <2>3, <2>5 DEF IInv, TypeOK, Stages
    <3> QED BY <2>1, <2>2, <2>3, <2>5, <3>1
          DEF IInv, BindingConsistent, WrongCacheHasCause, CopyHasCause, CopiesHaveRow
  <2> QED BY <1>3, <2>4, <2>5 DEF Restart
<1>4. CASE UNCHANGED vars
  BY <1>4 DEF vars, IInv, TypeOK, BindingConsistent, WrongCacheHasCause, CopyHasCause,
              CopiesHaveRow, Holds, Pending
<1> QED BY <1>1, <1>2, <1>3, <1>4 DEF Next

(* However many requests of a user run at once, and whatever fails, the     *)
(* strengthened invariant of the record holds.                             *)
THEOREM Invariance == Spec => []IInv
<1> QED BY InitIInv, NextIInv, PTL DEF Spec

(* Row, cached record and the copies of the requests keep their types.      *)
THEOREM TypeCorrect == Spec => []TypeOK
<1>1. IInv => TypeOK
  BY DEF IInv
<1> QED BY <1>1, Invariance, PTL

(* No store and no request ever has half a binding.                         *)
THEOREM NoHalfBinding == Spec => []BindingConsistent
<1>1. IInv => BindingConsistent
  BY DEF IInv
<1> QED BY <1>1, Invariance, PTL

(* Redis disagrees with MySQL about the account only for one of the causes. *)
THEOREM CacheIsRight == Spec => []WrongCacheHasCause
<1>1. IInv => WrongCacheHasCause
  BY DEF IInv
<1> QED BY <1>1, Invariance, PTL

(* A note goes to the account that MySQL has, unless the request was        *)
(* overtaken.                                                              *)
THEOREM NotesGoHome == Spec => NoteGoesHome
<1> DEFINE Home ==
      \A r \in Requests : SaveTextNote(r) =>
        /\ user[r].key # None
        /\ r \in outdated \/ SameBinding(user[r], row)
<1>1. IInv => Home
  BY DEF SaveTextNote, IInv, CopyHasCause, Holds
<1>2. IInv /\ [Next]_vars => [Home]_vars
  BY <1>1
<1> QED BY <1>2, Invariance, PTL DEF Spec, NoteGoesHome
=============================================================================
