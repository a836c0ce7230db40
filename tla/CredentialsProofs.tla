-------------------------- MODULE CredentialsProofs --------------------------
(***************************************************************************)
(* Proofs about Credentials, for any addresses, passwords and requests:    *)
(* one row per address, created credentials stay, and only create_super    *)
(* makes super users, although each check and the write that relies on it  *)
(* are separate statements.                                                *)
(***************************************************************************)
EXTENDS Credentials, FiniteSetTheorems, TLAPS

-----------------------------------------------------------------------------
(***************************************************************************)
(* The inductive invariant.                                                *)
(***************************************************************************)

\* The stages of create_super once it has inserted its row, until it is told
\* how that ended.
Owning == {"grant_check", "grant", "out_check", "out"}

\* An operation is only at stages of its own.
StageFits ==
  \A r \in Requests :
    /\ req[r].stage \in {"exists", "insert"} =>
         req[r].op \in {"sign_in", "create_super"}
    /\ req[r].stage \in {"mail", "created"} => req[r].op = "sign_in"
    /\ req[r].stage \in Owning \cup {"super_made"} => req[r].op = "create_super"
    /\ req[r].stage \in {"super_access", "super_access2", "super_flag",
                         "access", "access2", "flag", "token"} =>
         req[r].op = "log_in"

\* OneRow, without counting.
Unicity == \A w1, w2 \in rows : w1.email = w2.email => w1 = w2

\* A run of create_super that has come as far as its row.
Inserted(s) ==
  /\ req[s].op = "create_super"
  /\ req[s].stage \in Owning \cup {"super_made", "panicked"}

\* The run of create_super came as far as promoting its row.
Granting(s) ==
  /\ req[s].op = "create_super"
  /\ req[s].stage \in {"grant", "out_check", "out", "super_made", "panicked"}

\* A row is as the operation that inserted it asked.
RowsMatch ==
  \A w \in rows :
    /\ w.email = req[w.by].email /\ w.pass = req[w.by].pass
    /\ w.super => Granting(w.by)

\* The row of an operation is there as long as it relies on it.
Kept ==
  \A r \in Requests :
    req[r].stage \in Owning \cup {"mail", "created"} => \E w \in rows : w.by = r

\* A log-in has passed CheckAccessBasic: its address and password are those of an
\* operation whose row is there, or of a create_super that has given it up.
Vouched(r) ==
  \E s \in Requests :
    /\ req[s].email = req[r].email /\ req[s].pass = req[r].pass
    /\ \/ \E w \in rows : w.by = s
       \/ req[s].op = "create_super" /\ req[s].stage = "panicked"

\* The address and password are those of a run of create_super.
Deserved(r) ==
  \E s \in Requests :
    Granting(s) /\ req[s].email = req[r].email /\ req[s].pass = req[r].pass

LogInsVouched ==
  \A r \in Requests :
    /\ req[r].stage \in {"super_access2", "super_flag", "access2", "flag"} => Vouched(r)
    /\ req[r].stage = "token" /\ req[r].super => Deserved(r)
    /\ req[r].stage \in {"access", "access2", "flag", "token"}
         /\ req[r].ask = "manager" => Deserved(r)

IInv == TypeOK /\ StageFits /\ Unicity /\ RowsMatch /\ Kept /\ LogInsVouched

-----------------------------------------------------------------------------
(***************************************************************************)
(* What a step can change.                                                 *)
(***************************************************************************)

\* Only r moves, and what it asks for stays.
Frame(r) ==
  /\ \A q \in Requests \ {r} : req'[q] = req[q]
  /\ req'[r].op = req[r].op /\ req'[r].ask = req[r].ask
  /\ req'[r].email = req[r].email /\ req'[r].pass = req[r].pass

\* Go only changes the stage, to one there is.
LEMMA GoFrame ==
  ASSUME TypeOK, NEW r \in Requests, NEW s, NEW t \in Stages, Go(r, s, t)
  PROVE  /\ req' \in [Requests -> Op] /\ Frame(r)
         /\ req[r].stage = s /\ req'[r].stage = t
         /\ req'[r].super = req[r].super
BY DEF TypeOK, Op, Go, Frame

\* A log-in that notes a flag.
LEMMA NoteFrame ==
  ASSUME TypeOK, NEW r \in Requests, NEW s \in BOOLEAN, NEW t \in Stages,
         req' = [req EXCEPT ![r].super = s, ![r].stage = t]
  PROVE  /\ req' \in [Requests -> Op] /\ Frame(r)
         /\ req'[r].super = s /\ req'[r].stage = t
<1>1. req' = [req EXCEPT ![r] = [req[r] EXCEPT !.super = s, !.stage = t]]
  BY DEF TypeOK, Op
<1>2. QED
  BY <1>1 DEF TypeOK, Op, Frame

\* AskPermissions keeps the answer of IsSuper, and goes on or ends.
LEMMA AskFrame ==
  ASSUME TypeOK, NEW r \in Requests, NEW s \in BOOLEAN, AskPermissions(r, s)
  PROVE  /\ req' \in [Requests -> Op] /\ Frame(r)
         /\ req'[r].super = s
         /\ \/ req'[r].stage = "refused"
            \/ req'[r].stage = "access" /\ (req[r].ask = "manager" => s)
<1>1. {"refused", "access"} \subseteq Stages
  BY DEF Stages
<1>2. CASE req[r].ask = "manager" /\ ~ s
  BY <1>1, <1>2, NoteFrame DEF AskPermissions
<1>3. CASE ~ (req[r].ask = "manager" /\ ~ s)
  BY <1>1, <1>3, NoteFrame DEF AskPermissions
<1>4. QED
  BY <1>2, <1>3

\* A failure is a way to end.
LEMMA FailureIsStage ==
  ASSUME NEW r PROVE Failure(r) \in Stages
BY DEF Failure, Stages

\* The stages an operation can go to in one step that leaves the table alone.
Quiet(r) ==
  /\ UNCHANGED rows
  /\ Frame(r) /\ req' \in [Requests -> Op]
  /\ \/ req'[r].stage \in {"error", "refused", "conflict"} /\ req[r].op # "create_super"
     \/ req'[r].stage = "failed" /\ req[r].stage \in {"idle", "exists", "insert"}
     \/ req'[r].stage = "panicked" /\ req[r].stage \in Owning
     \/ req[r].stage = "idle" /\ req'[r].stage = "exists"
          /\ req[r].op \in {"sign_in", "create_super"}
     \/ req[r].stage = "idle" /\ req'[r].stage = "super_access" /\ req[r].op = "log_in"
     \/ req[r].stage = "exists" /\ req'[r].stage = "insert"
     \/ req[r].stage = "mail" /\ req'[r].stage = "created"
     \/ req[r].stage = "grant_check" /\ req'[r].stage = "grant"
     \/ req[r].stage \in {"grant_check", "grant"} /\ req'[r].stage = "out_check"
     \/ req[r].stage = "out_check" /\ req'[r].stage = "out"

\* The steps of a log-in that leave the table alone.
LogInStep(r) ==
  /\ UNCHANGED rows
  /\ Frame(r) /\ req' \in [Requests -> Op]
  /\ \/ req[r].stage = "super_access" /\ req'[r].stage = "super_access2" /\ HasAccess(req[r])
     \/ req[r].stage = "super_access2" /\ req'[r].stage = "super_flag"
     \/ req[r].stage \in {"super_access", "super_access2", "super_flag"}
          /\ req'[r].stage = "access" /\ req[r].ask # "manager"
     \/ req[r].stage = "super_flag" /\ req'[r].stage = "access" /\ IsSuperRow(req[r].email)
     \/ req[r].stage = "access" /\ req'[r].stage = "access2" /\ HasAccess(req[r])
     \/ req[r].stage = "access2" /\ req'[r].stage = "flag"
     \/ req[r].stage = "flag" /\ req'[r].stage = "token"
          /\ req'[r].super = IsSuperRow(req[r].email)

\* The row is inserted, and the operation goes on or is told of an error.
Inserts(r) ==
  /\ Frame(r) /\ req' \in [Requests -> Op]
  /\ req[r].stage = "insert" /\ Of(req[r].email) = {}
  /\ rows' = rows \cup {NewRow(r)}
  /\ \/ req'[r].stage = "mail" /\ req[r].op = "sign_in"
     \/ req'[r].stage = "grant_check" /\ req[r].op # "sign_in"
     \/ req'[r].stage = "error" /\ req[r].op # "create_super"
     \/ req'[r].stage = "panicked" /\ req[r].op = "create_super"

\* The UPDATE of GrantSuper took effect.
Promotes(r) ==
  /\ Frame(r) /\ req' \in [Requests -> Op]
  /\ req[r].stage = "grant" /\ req'[r].stage \in {"super_made", "out_check"}
  /\ rows' = Promoted(req[r].email)

\* The DELETE of SignOutBasic took effect.
Removes(r) ==
  /\ Frame(r) /\ req' \in [Requests -> Op]
  /\ req[r].stage = "out" /\ req'[r].stage = "panicked"
  /\ rows' = rows \ Of(req[r].email)

\* Every step is of one of these five kinds.
LEMMA Kinds ==
  ASSUME TypeOK, StageFits, NEW r \in Requests, Operation(r)
  PROVE  Quiet(r) \/ LogInStep(r) \/ Inserts(r) \/ Promotes(r) \/ Removes(r)
<1> USE GoFrame, AskFrame, FailureIsStage
<1>1. CASE SignIn(r)
  BY <1>1 DEF SignIn, Quiet, Failure, Stages, Owning
<1>2. CASE Exists(r)
  BY <1>2 DEF Exists, Quiet, Stages, StageFits, Owning
<1>3. CASE Insert(r)
  BY <1>3 DEF Insert, Unique, Inserts, Quiet, Stages, Failure, StageFits
<1>4. CASE Mail(r)
  BY <1>4 DEF Mail, Quiet, Stages, StageFits
<1>5. CASE GrantCheck(r)
  BY <1>5 DEF GrantCheck, Quiet, Stages
<1>6. CASE Grant(r)
  BY <1>6 DEF Grant, Promotes, Quiet, Stages
<1>7. CASE OutCheck(r)
  BY <1>7 DEF OutCheck, Quiet, Stages, StageFits, Owning
<1>8. CASE Out(r)
  BY <1>8 DEF Out, Removes, Quiet, Stages, StageFits, Owning
<1>9. CASE LogIn(r)
  BY <1>9 DEF LogIn, Quiet, Stages
<1>10. CASE SuperAccess(r, "super_access", "super_access2")
  BY <1>10 DEF SuperAccess, LogInStep, Quiet, Stages, StageFits
<1>11. CASE SuperAccess(r, "super_access2", "super_flag")
  BY <1>11 DEF SuperAccess, LogInStep, Quiet, Stages, StageFits
<1>12. CASE SuperFlag(r)
  <2>1. IsSuperRow(req[r].email) \in BOOLEAN
    BY DEF IsSuperRow
  <2>2. QED
    BY <1>12, <2>1 DEF SuperFlag, LogInStep, Quiet, StageFits
<1>13. CASE Access(r, "access", "access2")
  BY <1>13 DEF Access, LogInStep, Quiet, Stages, StageFits
<1>14. CASE Access(r, "access2", "flag")
  BY <1>14 DEF Access, LogInStep, Quiet, Stages, StageFits
<1>15. CASE Flag(r)
  <2>1. CASE Go(r, "flag", "refused") /\ UNCHANGED rows
    BY <2>1 DEF Quiet, Stages, StageFits
  <2>2. CASE /\ req[r].stage = "flag" /\ UNCHANGED rows
             /\ req' = [req EXCEPT ![r].super = IsSuperRow(req[r].email),
                                   ![r].stage = "token"]
    <3>1. IsSuperRow(req[r].email) \in BOOLEAN /\ "token" \in Stages
      BY DEF IsSuperRow, Stages
    <3>2. /\ req' \in [Requests -> Op] /\ Frame(r)
          /\ req'[r].super = IsSuperRow(req[r].email) /\ req'[r].stage = "token"
      BY <2>2, <3>1, NoteFrame
    <3>3. QED
      BY <2>2, <3>2 DEF LogInStep
  <2>3. QED
    BY <1>15, <2>1, <2>2 DEF Flag
<1>16. CASE Fails(r)
  BY <1>16 DEF Fails, Unique, Inserts, LogInStep, Quiet, Stages, Failure, StageFits, Owning
<1>17. QED
  BY <1>1, <1>2, <1>3, <1>4, <1>5, <1>6, <1>7, <1>8, <1>9, <1>10, <1>11, <1>12,
     <1>13, <1>14, <1>15, <1>16 DEF Operation

-----------------------------------------------------------------------------
(***************************************************************************)
(* The table.                                                              *)
(***************************************************************************)

\* CheckAccessBasic finds a row: of no rows there is not exactly one.
LEMMA AccessFindsRow ==
  ASSUME NEW q, HasAccess(q)
  PROVE  \E w \in rows : w.email = q.email /\ w.pass = q.pass
<1>1. Of(q.email) # {}
  BY FS_EmptySet DEF HasAccess
<1>2. QED
  BY <1>1 DEF HasAccess, Of

\* So does IsSuperBasic when it says yes.
LEMMA SuperFindsRow ==
  ASSUME NEW e, IsSuperRow(e)
  PROVE  \A w \in rows : w.email = e => w.super
BY DEF IsSuperRow, Of

\* An UPDATE by address changes the flag and nothing else.
LEMMA PromotedRows ==
  ASSUME TypeOK, NEW e, rows' = Promoted(e)
  PROVE  /\ rows' \subseteq Row
         /\ \A v \in rows' : \E w \in rows :
              /\ v.by = w.by /\ v.email = w.email /\ v.pass = w.pass
              /\ v.super => w.super \/ w.email = e
              /\ v = IF w.email = e THEN [w EXCEPT !.super = TRUE] ELSE w
         /\ \A w \in rows : \E v \in rows' : v.by = w.by
<1>1. ASSUME NEW w \in rows
      PROVE  LET v == [w EXCEPT !.super = TRUE]
             IN v \in Row /\ v.by = w.by /\ v.email = w.email /\ v.pass = w.pass
  BY DEF TypeOK, Row
<1>2. ASSUME NEW w \in rows
      PROVE  \E v \in rows' : v.by = w.by
  BY <1>1 DEF Promoted
<1>3. ASSUME NEW v \in rows'
      PROVE  \E w \in rows :
               /\ v \in Row
               /\ v.by = w.by /\ v.email = w.email /\ v.pass = w.pass
               /\ v.super => w.super \/ w.email = e
               /\ v = IF w.email = e THEN [w EXCEPT !.super = TRUE] ELSE w
  BY <1>1 DEF Promoted, TypeOK
<1>4. QED
  BY <1>2, <1>3

\* The row of an operation that relies on it is the only one of its address.
LEMMA OwnRow ==
  ASSUME Unicity, RowsMatch, Kept, NEW r \in Requests, req[r].stage \in Owning
  PROVE  \A w \in Of(req[r].email) : w.by = r
BY DEF Unicity, RowsMatch, Kept, Of

-----------------------------------------------------------------------------
(***************************************************************************)
(* Each part of the invariant is kept by each kind of step.                *)
(***************************************************************************)

Kind(r) == Quiet(r) \/ LogInStep(r) \/ Inserts(r) \/ Promotes(r) \/ Removes(r)

\* The variables keep their types.
LEMMA TypeKept ==
  ASSUME TypeOK, NEW r \in Requests, Kind(r)
  PROVE  TypeOK'
<1>1. CASE Quiet(r) \/ LogInStep(r)
  BY <1>1 DEF TypeOK, Quiet, LogInStep
<1>2. CASE Inserts(r)
  <2>1. NewRow(r) \in Row
    BY DEF TypeOK, NewRow, Row, Op
  <2>2. QED
    BY <1>2, <2>1 DEF TypeOK, Inserts
<1>3. CASE Promotes(r)
  BY <1>3, PromotedRows DEF TypeOK, Promotes
<1>4. CASE Removes(r)
  BY <1>4 DEF TypeOK, Removes
<1>5. QED
  BY <1>1, <1>2, <1>3, <1>4 DEF Kind

\* Operations stay within their own stages.
LEMMA StageFitsKept ==
  ASSUME TypeOK, StageFits, NEW r \in Requests, Kind(r)
  PROVE  StageFits'
<1>1. CASE Quiet(r)
  BY <1>1 DEF StageFits, Quiet, Frame, Owning
<1>2. CASE LogInStep(r)
  BY <1>2 DEF StageFits, LogInStep, Frame, Owning
<1>3. CASE Inserts(r)
  BY <1>3 DEF StageFits, Inserts, Frame, Owning
<1>4. CASE Promotes(r)
  BY <1>4 DEF StageFits, Promotes, Frame, Owning
<1>5. CASE Removes(r)
  BY <1>5 DEF StageFits, Removes, Frame, Owning
<1>6. QED
  BY <1>1, <1>2, <1>3, <1>4, <1>5 DEF Kind

\* An address has one row: UNIQUE refuses a second.
LEMMA UnicityKept ==
  ASSUME TypeOK, Unicity, NEW r \in Requests, Kind(r)
  PROVE  Unicity'
<1>1. CASE Quiet(r) \/ LogInStep(r)
  BY <1>1 DEF Unicity, Quiet, LogInStep
<1>2. CASE Inserts(r)
  <2>1. NewRow(r).email = req[r].email
    BY DEF NewRow
  <2>2. QED
    BY <1>2, <2>1 DEF Unicity, Inserts, Of
<1>3. CASE Promotes(r)
  <2>1. ASSUME NEW v1 \in rows', NEW v2 \in rows', v1.email = v2.email
        PROVE  v1 = v2
    <3> DEFINE up(w) == IF w.email = req[r].email THEN [w EXCEPT !.super = TRUE] ELSE w
    <3>1. PICK w1 \in rows : v1.email = w1.email /\ v1 = up(w1)
      BY <1>3, PromotedRows DEF Promotes
    <3>2. PICK w2 \in rows : v2.email = w2.email /\ v2 = up(w2)
      BY <1>3, PromotedRows DEF Promotes
    <3>3. w1 = w2
      BY <2>1, <3>1, <3>2 DEF Unicity
    <3>4. QED
      BY <3>1, <3>2, <3>3
  <2>2. QED
    BY <2>1 DEF Unicity
<1>4. CASE Removes(r)
  BY <1>4 DEF Unicity, Removes
<1>5. QED
  BY <1>1, <1>2, <1>3, <1>4 DEF Kind

\* Once a run of create_super has come as far as promoting, it has for good.
LEMMA GrantingStays ==
  ASSUME TypeOK, StageFits, NEW r \in Requests, Kind(r), NEW s \in Requests, Granting(s)
  PROVE  Granting(s)'
<1>1. CASE Quiet(r)
  BY <1>1 DEF Granting, Quiet, Frame, StageFits, Owning
<1>2. CASE LogInStep(r) \/ Inserts(r) \/ Promotes(r) \/ Removes(r)
  BY <1>2 DEF Granting, LogInStep, Inserts, Promotes, Removes, Frame, StageFits
<1>3. QED
  BY <1>1, <1>2 DEF Kind

\* Rows stay as their operations asked; what is promoted is the promoter's own.
LEMMA RowsMatchKept ==
  ASSUME TypeOK, StageFits, Unicity, RowsMatch, Kept, NEW r \in Requests, Kind(r)
  PROVE  RowsMatch'
<1>1. \A q \in Requests : /\ req'[q].email = req[q].email /\ req'[q].pass = req[q].pass
                          /\ Granting(q) => Granting(q)'
  <2>1. Frame(r)
    BY DEF Kind, Quiet, LogInStep, Inserts, Promotes, Removes
  <2>2. QED
    BY <2>1, GrantingStays DEF Frame
<1>2. \A w \in rows : w.by \in Requests
  BY DEF TypeOK, Row
<1>3. CASE Quiet(r) \/ LogInStep(r) \/ Removes(r)
  <2>1. rows' \subseteq rows
    BY <1>3 DEF Quiet, LogInStep, Removes
  <2>2. QED
    BY <1>1, <1>2, <2>1 DEF RowsMatch
<1>4. CASE Inserts(r)
  <2>1. /\ NewRow(r).email = req[r].email /\ NewRow(r).pass = req[r].pass
        /\ NewRow(r).by = r /\ ~ NewRow(r).super
    BY DEF NewRow
  <2>2. QED
    BY <1>1, <1>2, <1>4, <2>1 DEF RowsMatch, Inserts
<1>5. CASE Promotes(r)
  <2>1. Granting(r) /\ req[r].stage \in Owning
    BY <1>5 DEF Promotes, Granting, StageFits, Owning
  <2>2. SUFFICES ASSUME NEW v \in rows'
                 PROVE  /\ v.email = req'[v.by].email /\ v.pass = req'[v.by].pass
                        /\ v.super => Granting(v.by)'
    BY DEF RowsMatch
  <2>3. PICK w \in rows : /\ v.by = w.by /\ v.email = w.email /\ v.pass = w.pass
                          /\ v.super => w.super \/ w.email = req[r].email
    BY <1>5, PromotedRows DEF Promotes
  <2>4. w.email = req[r].email => w.by = r
    BY <2>1, OwnRow DEF Of
  <2>5. QED
    BY <1>1, <1>2, <2>1, <2>3, <2>4 DEF RowsMatch
<1>6. QED
  BY <1>3, <1>4, <1>5 DEF Kind

\* No operation loses its row to another's roll-back.
LEMMA KeptKept ==
  ASSUME TypeOK, StageFits, Unicity, RowsMatch, Kept, NEW r \in Requests, Kind(r)
  PROVE  Kept'
<1>1. CASE Quiet(r)
  BY <1>1 DEF Kept, Quiet, Frame, Owning
<1>2. CASE LogInStep(r)
  BY <1>2 DEF Kept, LogInStep, Frame, Owning
<1>3. CASE Inserts(r)
  <2>1. NewRow(r) \in rows' /\ NewRow(r).by = r
    BY <1>3 DEF Inserts, NewRow
  <2>2. QED
    BY <1>3, <2>1 DEF Kept, Inserts, Frame
<1>4. CASE Promotes(r)
  <2>1. \A w \in rows : \E v \in rows' : v.by = w.by
    BY <1>4, PromotedRows DEF Promotes
  <2>2. QED
    BY <1>4, <2>1 DEF Kept, Promotes, Frame, Owning
<1>5. CASE Removes(r)
  <2>1. \A w \in Of(req[r].email) : w.by = r
    BY <1>5, OwnRow DEF Removes, Owning
  <2>2. QED
    BY <1>5, <2>1 DEF Kept, Removes, Frame, Owning
<1>6. QED
  BY <1>1, <1>2, <1>3, <1>4, <1>5 DEF Kind

-----------------------------------------------------------------------------
(***************************************************************************)
(* Log-ins.                                                                *)
(***************************************************************************)

\* Who has access has the password of the operation that inserted the row.
LEMMA AccessVouches ==
  ASSUME TypeOK, RowsMatch, NEW r \in Requests, HasAccess(req[r])
  PROVE  Vouched(r)
<1>1. PICK w \in rows : w.email = req[r].email /\ w.pass = req[r].pass
  BY AccessFindsRow
<1>2. w.by \in Requests
  BY DEF TypeOK, Row
<1>3. QED
  BY <1>1, <1>2 DEF Vouched, RowsMatch

\* If then the row says super, the password was one of create_super, although the
\* row may by now be another.
LEMMA SuperDeserved ==
  ASSUME TypeOK, RowsMatch, NEW r \in Requests, Vouched(r), IsSuperRow(req[r].email)
  PROVE  Deserved(r)
<1>1. PICK s \in Requests :
        /\ req[s].email = req[r].email /\ req[s].pass = req[r].pass
        /\ \/ \E w \in rows : w.by = s
           \/ req[s].op = "create_super" /\ req[s].stage = "panicked"
  BY DEF Vouched
<1>2. CASE \E w \in rows : w.by = s
  BY <1>1, <1>2, SuperFindsRow DEF RowsMatch, Deserved
<1>3. CASE req[s].op = "create_super" /\ req[s].stage = "panicked"
  BY <1>1, <1>3 DEF Granting, Deserved
<1>4. QED
  BY <1>1, <1>2, <1>3

\* The run of create_super that a log-in owes its flag to has been for good.
LEMMA DeservedStays ==
  ASSUME TypeOK, StageFits, NEW r \in Requests, Kind(r), NEW q \in Requests, Deserved(q)
  PROVE  Deserved(q)'
<1>1. Frame(r)
  BY DEF Kind, Quiet, LogInStep, Inserts, Promotes, Removes
<1>2. QED
  BY <1>1, GrantingStays DEF Deserved, Frame

\* A row that vouches for a log-in goes only with a create_super that panics.
LEMMA VouchedStays ==
  ASSUME TypeOK, StageFits, Unicity, RowsMatch, Kept,
         NEW r \in Requests, Kind(r), NEW q \in Requests, Vouched(q)
  PROVE  Vouched(q)'
<1>1. Frame(r)
  BY DEF Kind, Quiet, LogInStep, Inserts, Promotes, Removes
<1>2. PICK s \in Requests :
        /\ req[s].email = req[q].email /\ req[s].pass = req[q].pass
        /\ \/ \E w \in rows : w.by = s
           \/ req[s].op = "create_super" /\ req[s].stage = "panicked"
  BY DEF Vouched
<1>3. req'[s].email = req'[q].email /\ req'[s].pass = req'[q].pass
  BY <1>1, <1>2 DEF Frame
<1>4. CASE req[s].op = "create_super" /\ req[s].stage = "panicked"
  <2>1. req'[s].op = "create_super" /\ req'[s].stage = "panicked"
    BY <1>1, <1>4 DEF Kind, Quiet, LogInStep, Inserts, Promotes, Removes, Frame
  <2>2. QED
    BY <1>3, <2>1 DEF Vouched
<1>5. CASE \E w \in rows : w.by = s
  <2>1. CASE Quiet(r) \/ LogInStep(r) \/ Inserts(r)
    BY <1>3, <1>5, <2>1 DEF Vouched, Quiet, LogInStep, Inserts
  <2>2. CASE Promotes(r)
    BY <1>3, <1>5, <2>2, PromotedRows DEF Vouched, Promotes
  <2>3. CASE Removes(r) /\ s = r
    BY <1>3, <2>3 DEF Vouched, Removes, StageFits, Frame, Owning
  <2>4. CASE Removes(r) /\ s # r
    <3>1. \A w \in Of(req[r].email) : w.by = r
      BY <2>4, OwnRow DEF Removes, Owning
    <3>2. QED
      BY <1>3, <1>5, <2>4, <3>1 DEF Vouched, Removes
  <2>5. QED
    BY <2>1, <2>2, <2>3, <2>4 DEF Kind
<1>6. QED
  BY <1>2, <1>4, <1>5

\* Whatever others do between the statements of a log-in, its password is vouched for.
LEMMA LogInsVouchedKept ==
  ASSUME IInv, NEW r \in Requests, Kind(r)
  PROVE  LogInsVouched'
<1> USE DEF IInv
<1>1. \A q \in Requests : (Vouched(q) => Vouched(q)') /\ (Deserved(q) => Deserved(q)')
  BY VouchedStays, DeservedStays
<1>2. Frame(r)
  BY DEF Kind, Quiet, LogInStep, Inserts, Promotes, Removes
<1>3. CASE Quiet(r) \/ Inserts(r) \/ Promotes(r) \/ Removes(r)
  BY <1>1, <1>2, <1>3 DEF LogInsVouched, Quiet, Inserts, Promotes, Removes, Frame
<1>4. CASE LogInStep(r)
  <2>1. HasAccess(req[r]) => Vouched(r)
    BY AccessVouches
  <2>2. Vouched(r) /\ IsSuperRow(req[r].email) => Deserved(r)
    BY SuperDeserved
  <2>3. QED
    BY <1>1, <1>2, <1>4, <2>1, <2>2 DEF LogInsVouched, LogInStep, Frame
<1>5. QED
  BY <1>3, <1>4 DEF Kind

-----------------------------------------------------------------------------
(***************************************************************************)
(* The theorems.                                                           *)
(***************************************************************************)

\* The invariant holds initially and is inductive.
THEOREM Invariance == Spec => []IInv
<1>1. Init => IInv
  BY DEF Init, IInv, TypeOK, Op, Row, StageFits, Unicity, RowsMatch, Kept,
         LogInsVouched, Owning
<1>2. IInv /\ [Next]_vars => IInv'
  <2>1. ASSUME IInv, NEW r \in Requests, Operation(r)
        PROVE  IInv'
    <3>1. Kind(r)
      BY <2>1, Kinds DEF IInv, Kind
    <3>2. QED
      BY <2>1, <3>1, TypeKept, StageFitsKept, UnicityKept, RowsMatchKept, KeptKept,
         LogInsVouchedKept DEF IInv
  <2>2. ASSUME IInv, UNCHANGED vars
        PROVE  IInv'
    BY <2>2 DEF IInv, vars, TypeOK, StageFits, Unicity, RowsMatch, Granting, Kept,
                LogInsVouched, Vouched, Deserved
  <2>3. QED
    BY <2>1, <2>2 DEF Next
<1>3. QED
  BY <1>1, <1>2, PTL DEF Spec

\* The variables have their types.
THEOREM TypeCorrect == Spec => []TypeOK
<1>1. IInv => TypeOK
  BY DEF IInv
<1>2. QED
  BY <1>1, Invariance, PTL

\* No two rows have one address.
THEOREM OneRowPerAddress == Spec => []OneRow
<1>1. IInv => OneRow
  <2>1. ASSUME IInv, NEW e \in Emails
        PROVE  Cardinality(Of(e)) <= 1
    <3>1. CASE Of(e) = {}
      BY <3>1, FS_EmptySet
    <3>2. CASE Of(e) # {}
      <4>1. PICK w \in Of(e) : Of(e) = {w}
        BY <2>1, <3>2 DEF IInv, Unicity, Of
      <4>2. QED
        BY <4>1, FS_Singleton
    <3>3. QED
      BY <3>1, <3>2
  <2>2. QED
    BY <2>1 DEF OneRow
<1>2. QED
  BY <1>1, Invariance, PTL

\* A credential whose sign-in was answered 201 stays, whoever fails and cleans up.
THEOREM CreatedForGood == Spec => []CreatedStays
<1>1. IInv => CreatedStays
  BY DEF IInv, Kept, RowsMatch, CreatedStays
<1>2. QED
  BY <1>1, Invariance, PTL

\* Only create_super makes super users.
THEOREM SuperDeliberate == Spec => []SuperIsDeliberate
<1>1. IInv => SuperIsDeliberate
  BY DEF IInv, RowsMatch, Granting, SuperIsDeliberate
<1>2. QED
  BY <1>1, Invariance, PTL

\* A token that says super was asked for with the password of a create_super.
THEOREM TokenDeserved == Spec => []SuperTokenDeserved
<1>1. IInv => SuperTokenDeserved
  BY DEF IInv, LogInsVouched, Deserved, Granting, SuperTokenDeserved
<1>2. QED
  BY <1>1, Invariance, PTL
=============================================================================
