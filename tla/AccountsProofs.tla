--------------------------- MODULE AccountsProofs ---------------------------
(* Proofs about Accounts, for every set of browsers and of calls.          *)
EXTENDS Accounts, TLAPS

\* A request, whatever it has still to do.
Records == [kind: DOMAIN Plan \cup {"none"}, todo: Seq(Steps), by: Browsers \cup {0}, ref: Serials,
            field: Fields, serial: Serials, family: Serials, basis: Serials,
            user: Users \cup {NoUser}]
Tokens  == [status: {"none", "active", "revoked", "stale"}, family: Serials, basis: Serials]

\* No list of statements has one twice.
NoRepeats(todo) == \A i, j \in DOMAIN todo : todo[i] = todo[j] => i = j

-----------------------------------------------------------------------------
(* The lists of statements *)

AllSteps == {"load", "put", "create", "mail", "issue", "answer", "rotate", "recheck", "retire",
             "mark", "setPassword", "revoke", "judge", "drop", "write", "ban", "forget", "release"}

LEMMA PlansListed ==
  ASSUME NEW k \in DOMAIN Plan PROVE Plan[k] \in Seq(AllSteps)
<1>1. /\ SignupSteps \in Seq(AllSteps) /\ LoginSteps \in Seq(AllSteps)
      /\ RefreshToken \in Seq(AllSteps) /\ ForgotPassword \in Seq(AllSteps)
      /\ ResetPassword \in Seq(AllSteps) /\ VerifyEmail \in Seq(AllSteps)
      /\ Logout \in Seq(AllSteps) /\ ChangePassword \in Seq(AllSteps)
  BY DEF AllSteps, SignupSteps, LoginSteps, RefreshToken, ForgotPassword, ResetPassword,
         VerifyEmail, Logout, ChangePassword
<1>2. /\ DeleteAccount \in Seq(AllSteps) /\ UpdateProfile \in Seq(AllSteps)
      /\ ResendVerification \in Seq(AllSteps) /\ UpdateBanned \in Seq(AllSteps)
      /\ UpdateVerified \in Seq(AllSteps) /\ DeleteUser \in Seq(AllSteps)
  BY DEF AllSteps, DeleteAccount, UpdateProfile, ResendVerification, UpdateBanned, UpdateVerified,
         DeleteUser
<1> QED
  BY <1>1, <1>2 DEF Plan

LEMMA PlansTyped ==
  ASSUME NEW k \in DOMAIN Plan PROVE Plan[k] \in Seq(Steps)
<1>1. Plan[k] \in Seq(AllSteps)
  BY PlansListed
<1>2. \A i \in DOMAIN Plan[k] : Plan[k][i] \in Steps
  BY DEF Steps
<1> HIDE DEF Plan
<1> QED
  BY <1>1, <1>2

\* What the proofs use of the lists.
LEMMA PlanFacts ==
  ASSUME NEW k \in DOMAIN Plan
  PROVE  /\ NoRepeats(Plan[k]) /\ Plan[k] # <<>>
         /\ "load" \notin Range(Plan[k]) /\ "put" \notin Range(Plan[k])
         /\ "rotate" \in Range(Plan[k]) => k = "refresh"
         /\ "write" \in Range(Plan[k]) => k = "profile"
         /\ "issue" \in Range(Plan[k]) => k \in {"signup", "login", "refresh", "change"}
BY DEF Plan, NoRepeats, Range, SignupSteps, LoginSteps, RefreshToken, ForgotPassword, ResetPassword,
       VerifyEmail, Logout, ChangePassword, DeleteAccount, UpdateProfile, ResendVerification,
       UpdateBanned, UpdateVerified, DeleteUser

LEMMA RefreshFacts ==
  /\ "refresh" \in DOMAIN Plan /\ Plan["refresh"] = RefreshToken
  /\ Range(RefreshToken) = {"rotate", "recheck", "issue", "answer"}
  /\ RefreshToken # <<>> /\ Head(RefreshToken) = "rotate"
  /\ "logout" \in DOMAIN Plan /\ Plan["logout"] = Logout /\ Range(Logout) = {"revoke"}
BY DEF Plan, RefreshToken, Logout, Range

\* The statements of the middleware before those of a handler.
LEMMA LoadPut ==
  ASSUME NEW S, NEW s \in Seq(S)
  PROVE  LET t == <<"load", "put">> \o s IN
         /\ t \in Seq({"load", "put"} \cup S) /\ t # <<>> /\ Len(t) = Len(s) + 2
         /\ t[1] = "load" /\ t[2] = "put" /\ \A i \in DOMAIN s : t[i + 2] = s[i]
         /\ \A i \in DOMAIN t : i \notin {1, 2} => i - 2 \in DOMAIN s /\ t[i] = s[i - 2]
OBVIOUS

LEMMA TailFacts ==
  ASSUME NEW S, NEW s \in Seq(S), s # <<>>
  PROVE  /\ Tail(s) \in Seq(S) /\ Head(s) \in Range(s) /\ Range(Tail(s)) \subseteq Range(s)
         /\ Range(s) \subseteq {Head(s)} \cup Range(Tail(s))
         /\ Len(s) = 1 <=> Tail(s) = <<>>
         /\ NoRepeats(s) => NoRepeats(Tail(s)) /\ Head(s) \notin Range(Tail(s))
<1>1. /\ Tail(s) \in Seq(S) /\ Len(Tail(s)) = Len(s) - 1 /\ Head(s) = s[1] /\ Len(s) \in Nat \ {0}
      /\ DOMAIN s = 1..Len(s) /\ DOMAIN Tail(s) = 1..(Len(s) - 1)
      /\ \A i \in 1..(Len(s) - 1) : Tail(s)[i] = s[i + 1]
  OBVIOUS
<1>2. Head(s) \in Range(s) /\ Range(Tail(s)) \subseteq Range(s)
  BY <1>1 DEF Range
<1>3. Range(s) \subseteq {Head(s)} \cup Range(Tail(s))
  <2> SUFFICES ASSUME NEW i \in DOMAIN s PROVE s[i] \in {Head(s)} \cup Range(Tail(s))
    BY DEF Range
  <2>1. CASE i = 1
    BY <1>1, <2>1
  <2>2. CASE i # 1
    <3>1. i - 1 \in DOMAIN Tail(s) /\ Tail(s)[i - 1] = s[i]
      BY <1>1, <2>2
    <3> QED
      BY <3>1 DEF Range
  <2> QED
    BY <2>1, <2>2
<1>4. ASSUME NoRepeats(s) PROVE NoRepeats(Tail(s)) /\ Head(s) \notin Range(Tail(s))
  <2>1. \A i \in DOMAIN Tail(s) : i + 1 \in DOMAIN s /\ i + 1 # 1 /\ Tail(s)[i] = s[i + 1] /\ i \in Nat
    BY <1>1
  <2>2. NoRepeats(Tail(s))
    <3> SUFFICES ASSUME NEW i \in DOMAIN Tail(s), NEW j \in DOMAIN Tail(s), Tail(s)[i] = Tail(s)[j]
                 PROVE  i = j
      BY DEF NoRepeats
    <3>1. i + 1 = j + 1
      BY <1>4, <2>1 DEF NoRepeats
    <3> QED
      BY <2>1, <3>1
  <2>3. Head(s) \notin Range(Tail(s))
    <3> SUFFICES ASSUME NEW i \in DOMAIN Tail(s), Tail(s)[i] = s[1] PROVE FALSE
      BY <1>1 DEF Range
    <3>1. 1 \in DOMAIN s
      BY <1>1
    <3> QED
      BY <1>4, <2>1, <3>1 DEF NoRepeats
  <2> QED
    BY <2>2, <2>3
<1>5. Len(s) = 1 <=> Tail(s) = <<>>
  <2>1. \A t \in Seq(S) : Len(t) = 0 <=> t = <<>>
    OBVIOUS
  <2>2. Tail(s) = <<>> <=> Len(s) - 1 = 0
    BY <1>1, <2>1
  <2> QED
    BY <1>1, <2>2
<1> QED
  BY <1>1, <1>2, <1>3, <1>4, <1>5

-----------------------------------------------------------------------------
(* What a statement does to the requests *)

CallsTyped == call \in [Calls -> Records] /\ requests \in Serials

\* One that goes on or ends, for all but what it knows of its user.
Alike(r, s) == /\ r.kind = s.kind /\ r.by = s.by /\ r.ref = s.ref /\ r.field = s.field
               /\ r.serial = s.serial /\ r.family = s.family /\ r.todo = s.todo
Ends(c) == call'[c] = NoCall
GoesOn(c) == /\ Alike(call'[c], [call[c] EXCEPT !.todo = Tail(call[c].todo)])
             /\ Tail(call[c].todo) # <<>>
OthersStay(c) == \A d \in Calls \ {c} : call'[d] = call[d]

LEMMA NoCallTyped == NoCall \in Records
BY ConstantsOK DEF NoCall, Records, Serials, Fields

LEMMA FinishMoves ==
  ASSUME CallsTyped, NEW c \in Calls, Finish(c)
  PROVE  CallsTyped' /\ requests' = requests /\ Ends(c) /\ OthersStay(c)
BY NoCallTyped DEF CallsTyped, Finish, Ends, OthersStay

LEMMA ProceedMoves ==
  ASSUME CallsTyped, NEW c \in Calls, call[c].todo # <<>>, NEW known \in Records, Alike(known, call[c]),
         Proceed(c, known)
  PROVE  /\ CallsTyped' /\ requests' = requests /\ OthersStay(c)
         /\ IF Tail(call[c].todo) = <<>> THEN Ends(c)
            ELSE GoesOn(c) /\ call'[c] = [known EXCEPT !.todo = Tail(call[c].todo)]
<1> DEFINE rest == Tail(call[c].todo)
<1>1. call[c] \in Records /\ call[c].todo \in Seq(Steps)
  BY DEF CallsTyped, Records
<1>2. rest \in Seq(Steps) /\ (Len(call[c].todo) = 1 <=> rest = <<>>)
  BY <1>1, TailFacts
<1>3. known.todo = call[c].todo
  BY DEF Alike
<1>4. call' = [call EXCEPT ![c] = IF rest = <<>> THEN NoCall ELSE [known EXCEPT !.todo = rest]]
  BY <1>2, <1>3 DEF Proceed
<1> HIDE DEF rest
<1>5. [known EXCEPT !.todo = rest] \in Records
  BY <1>2 DEF Records
<1>6. Alike([known EXCEPT !.todo = rest], [call[c] EXCEPT !.todo = rest])
  BY <1>1 DEF Alike, Records
<1>7. CallsTyped' /\ requests' = requests /\ OthersStay(c)
      /\ call'[c] = IF rest = <<>> THEN NoCall ELSE [known EXCEPT !.todo = rest]
  BY <1>4, <1>5, NoCallTyped DEF CallsTyped, OthersStay, Proceed
<1> QED
  BY <1>6, <1>7 DEF rest, Ends, GoesOn

-----------------------------------------------------------------------------
(* Types *)

\* A request that is about to cache its user, or to write the profile, has read the user.
UserKnown(r) == \A i \in DOMAIN r.todo :
    /\ r.todo[i] = "put" => IF i = 1 THEN r.user \in Users ELSE r.todo[i - 1] = "load"
    /\ r.todo[i] = "write" => /\ r.kind = "profile"
                              /\ IF i = 1 THEN r.user \in Users ELSE r.todo[i - 1] = "put"
UserInv == \A c \in Calls : UserKnown(call[c])

RowTyped ==
    /\ account \in {"none", "live", "gone"} /\ password \in Serials
    /\ banned \in BOOLEAN /\ verified \in BOOLEAN /\ held \in BOOLEAN
    /\ profile \in Profiles /\ young \in BOOLEAN
TablesTyped ==
    /\ token \in [Serials -> Tokens]
    /\ mails \in [Serials -> {"none", "live", "used"}]
    /\ resets \in [Serials -> {"none", "live", "used"}]
WebTyped == /\ cache \in Users \cup {NoUser}
            /\ stored \in [Browsers -> Serials \cup {Nothing}] /\ jwt \in [Browsers -> BOOLEAN]
PastTyped == slipped \subseteq Serials /\ lost \in BOOLEAN /\ alarmed \in BOOLEAN
Typed == CallsTyped /\ RowTyped /\ TablesTyped /\ WebTyped /\ PastTyped

LEMMA TypeParts == TypeOK <=> Typed
BY DEF TypeOK, Typed, CallsTyped, RowTyped, TablesTyped, WebTyped, PastTyped, Records, Tokens

LEMMA StaysTyped ==
  /\ RowTyped /\ UNCHANGED rowVars => RowTyped'
  /\ TablesTyped /\ UNCHANGED tableVars => TablesTyped'
  /\ WebTyped /\ UNCHANGED webVars => WebTyped'
  /\ PastTyped /\ UNCHANGED pastVars => PastTyped'
BY DEF RowTyped, TablesTyped, WebTyped, PastTyped, rowVars, tableVars, webVars, pastVars

LEMMA InitTyped == Init => Typed /\ UserInv
<1> SUFFICES ASSUME Init PROVE Typed /\ UserInv
  OBVIOUS
<1>1. 0 \in Serials
  BY ConstantsOK DEF Serials
<1>2. CallsTyped /\ UserInv
  BY <1>1, NoCallTyped DEF Init, CallsTyped, UserInv, UserKnown, NoCall
<1>3. RowTyped
  BY <1>1 DEF Init, RowTyped, Profiles
<1>4. TablesTyped
  <2>1. NoToken \in Tokens /\ [NoToken EXCEPT !.status = "active"] \in Tokens
    BY <1>1 DEF NoToken, Tokens
  <2> QED
    BY <2>1 DEF Init, TablesTyped
<1>5. WebTyped
  BY <1>1 DEF Init, WebTyped
<1> QED
  BY <1>2, <1>3, <1>4, <1>5 DEF Init, Typed, PastTyped

LEMMA RowIsUser == RowTyped => UserRow \in Users
BY DEF RowTyped, UserRow, Users

\* What a request reads on its way.
LEMMA RecordsKnow ==
  ASSUME NEW r \in Records, NEW u \in Users \cup {NoUser}, NEW n \in Serials
  PROVE  /\ [r EXCEPT !.user = u] \in Records /\ Alike([r EXCEPT !.user = u], r)
         /\ [r EXCEPT !.basis = n] \in Records /\ Alike([r EXCEPT !.basis = n], r)
         /\ Alike(r, r)
BY DEF Records, Alike

\* The order of load, put and write stands when a request goes on with a user it may need.
LEMMA UserKnownOnward ==
  ASSUME NEW r \in Records, NEW s \in Records, r.todo # <<>>, UserKnown(r),
         s.todo = Tail(r.todo), s.kind = r.kind,
         Head(r.todo) \in {"load", "put"} /\ s.todo # <<>> /\ Head(s.todo) \in {"put", "write"}
           => s.user \in Users
  PROVE  UserKnown(s)
<1>1. /\ r.todo \in Seq(Steps) /\ Len(r.todo) \in Nat \ {0} /\ DOMAIN r.todo = 1..Len(r.todo)
      /\ DOMAIN s.todo = 1..(Len(r.todo) - 1) /\ Head(r.todo) = r.todo[1]
      /\ \A i \in 1..(Len(r.todo) - 1) : s.todo[i] = r.todo[i + 1]
      /\ Len(r.todo) > 1 => s.todo # <<>> /\ Head(s.todo) = s.todo[1]
  BY DEF Records
<1> SUFFICES ASSUME NEW i \in DOMAIN s.todo
             PROVE  /\ s.todo[i] = "put" => IF i = 1 THEN s.user \in Users ELSE s.todo[i - 1] = "load"
                    /\ s.todo[i] = "write" =>
                         /\ s.kind = "profile"
                         /\ IF i = 1 THEN s.user \in Users ELSE s.todo[i - 1] = "put"
  BY DEF UserKnown
<1>2. /\ i + 1 \in DOMAIN r.todo /\ i + 1 # 1 /\ (i + 1) - 1 = i /\ s.todo[i] = r.todo[i + 1]
  BY <1>1
<1>3. /\ r.todo[i + 1] = "put" => r.todo[i] = "load"
      /\ r.todo[i + 1] = "write" => r.kind = "profile" /\ r.todo[i] = "put"
  BY <1>2 DEF UserKnown
<1>4. CASE i = 1
  BY <1>1, <1>2, <1>3, <1>4
<1>5. CASE i # 1
  <2>1. i - 1 \in 1..(Len(r.todo) - 1) /\ s.todo[i - 1] = r.todo[i]
    BY <1>1, <1>5
  <2> QED
    BY <1>2, <1>3, <1>5, <2>1
<1> QED
  BY <1>4, <1>5

-----------------------------------------------------------------------------
(* How requests begin, go on and end *)

\* The password that a request other than a refresh starts from; and what it needs.
BasisOf(kind) == CASE kind = "login" -> password [] kind = "change" -> requests + 1 [] OTHER -> 0
MayBegin(kind) == /\ kind = "login" => account = "live"
                  /\ kind = "change" => \E b \in Browsers : jwt[b]

\* A request begins: what it has to do, and what it takes over from a token.
Begins(c) == \E kind \in DOMAIN Plan, todo \in Seq(Steps) :
    /\ call[c] = NoCall /\ requests < MaxRequests /\ requests' = requests + 1 /\ OthersStay(c)
    /\ call'[c].kind = kind /\ call'[c].todo = todo /\ call'[c].serial = requests + 1
    /\ \/ todo = Plan[kind]
       \/ kind \in NeedsUser /\ todo = <<"load", "put">> \o Plan[kind]
       \/ kind = "refresh" /\ todo = Logout
    /\ \/ kind = "refresh" /\ \E b \in Browsers :
            /\ stored[b] # Nothing /\ call'[c].by = b /\ call'[c].ref = stored[b]
            /\ call'[c].family = token[stored[b]].family /\ call'[c].basis = token[stored[b]].basis
            /\ token[stored[b]].status = IF todo = Logout THEN "stale" ELSE "active"
            /\ alarmed' = (alarmed \/ todo = Logout)
       \/ /\ kind # "refresh" /\ alarmed' = alarmed /\ MayBegin(kind)
          /\ call'[c].family = IF kind \in {"signup", "login", "change"} THEN requests + 1 ELSE 0
          /\ call'[c].basis = BasisOf(kind)
    /\ UNCHANGED <<token, stored, jwt, lost, slipped, account, password>>

LEMMA BeginMoves ==
  ASSUME CallsTyped, NEW c \in Calls, NEW kind \in DOMAIN Plan, NEW request \in Records,
         Begin(c, kind, request)
  PROVE  /\ CallsTyped' /\ requests' = requests + 1 /\ OthersStay(c)
         /\ call[c] = NoCall /\ requests < MaxRequests
         /\ call'[c].kind = kind /\ call'[c].serial = requests + 1
         /\ call'[c].todo = request.todo /\ call'[c].by = request.by /\ call'[c].ref = request.ref
         /\ call'[c].family = request.family /\ call'[c].user = request.user
         /\ call'[c].basis = request.basis
<1>1. requests + 1 \in Serials
  BY ConstantsOK DEF CallsTyped, Begin, Serials
<1> HIDE DEF Plan
<1>2. [request EXCEPT !.kind = kind, !.serial = requests + 1] \in Records
  BY <1>1 DEF Records
<1>3. call'[c] = [request EXCEPT !.kind = kind, !.serial = requests + 1]
  BY DEF CallsTyped, Begin
<1>4. /\ call'[c].kind = kind /\ call'[c].serial = requests + 1 /\ call'[c].todo = request.todo
      /\ call'[c].by = request.by /\ call'[c].ref = request.ref
      /\ call'[c].family = request.family /\ call'[c].user = request.user
      /\ call'[c].basis = request.basis
  BY <1>3 DEF Records
<1> QED
  BY <1>1, <1>2, <1>4 DEF CallsTyped, Begin, OthersStay

\* The list of statements that a request begins with keeps loading before use.
LEMMA BeginKnowsUser ==
  ASSUME NEW r \in Records, NEW kind \in DOMAIN Plan, r.kind = kind,
         \/ r.todo = Plan[kind] /\ (kind = "profile" => r.user \in Users)
         \/ r.todo = <<"load", "put">> \o Plan[kind]
         \/ r.todo = Logout
  PROVE  UserKnown(r)
<1>1. /\ Plan[kind] \in Seq(Steps)
      /\ \A i \in DOMAIN Plan[kind] : Plan[kind][i] # "put" /\ (Plan[kind][i] = "write" => kind = "profile")
  BY PlansTyped, PlanFacts DEF Range
<1>2. kind = "profile" => Plan[kind] = <<"write">>
  BY DEF Plan, UpdateProfile
<1> HIDE DEF Plan
<1>3. CASE r.todo = Plan[kind] /\ (kind = "profile" => r.user \in Users)
  <2>1. \A i \in DOMAIN r.todo : r.todo[i] = "write" => i = 1 /\ kind = "profile"
    BY <1>1, <1>2, <1>3
  <2> QED
    BY <1>1, <1>3, <2>1 DEF UserKnown
<1>4. CASE r.todo = <<"load", "put">> \o Plan[kind]
  <2>1. /\ r.todo[1] = "load" /\ r.todo[2] = "put"
        /\ \A i \in DOMAIN r.todo : i \notin {1, 2} => i - 2 \in DOMAIN Plan[kind] /\ r.todo[i] = Plan[kind][i - 2]
        /\ DOMAIN r.todo \subseteq Nat
    BY <1>1, <1>4, LoadPut
  <2> SUFFICES ASSUME NEW i \in DOMAIN r.todo
               PROVE  /\ r.todo[i] = "put" => i = 2
                      /\ r.todo[i] = "write" => i = 3 /\ kind = "profile"
    BY <2>1 DEF UserKnown
  <2>2. CASE i \in {1, 2}
    BY <2>1, <2>2
  <2>3. CASE i \notin {1, 2}
    <3>1. i - 2 \in DOMAIN Plan[kind] /\ r.todo[i] = Plan[kind][i - 2] /\ i \in Nat
      BY <2>1, <2>3
    <3>2. r.todo[i] # "put" /\ (r.todo[i] = "write" => kind = "profile")
      BY <1>1, <3>1
    <3>3. r.todo[i] = "write" => i - 2 = 1
      BY <1>2, <3>1, <3>2
    <3> QED
      BY <3>1, <3>2, <3>3
  <2> QED
    BY <2>2, <2>3
<1>5. CASE r.todo = Logout
  BY <1>5 DEF UserKnown, Logout
<1> QED
  BY <1>3, <1>4, <1>5

\* A request of a kind that takes over nothing from a token.
LEMMA PlainBegin ==
  ASSUME Typed, UserInv, NEW c \in Calls, NEW kind \in DOMAIN Plan, kind # "refresh",
         NEW request \in Records, Begin(c, kind, request),
         \/ request.todo = Plan[kind] /\ (kind = "profile" => request.user \in Users)
         \/ kind \in NeedsUser /\ request.todo = <<"load", "put">> \o Plan[kind],
         request.family = IF kind \in {"signup", "login", "change"} THEN requests + 1 ELSE 0,
         request.basis = BasisOf(kind), MayBegin(kind),
         UNCHANGED <<rowVars, tableVars, stored, jwt, pastVars>>, cache' \in {cache, NoUser}
  PROVE  Typed' /\ UserInv' /\ Begins(c)
<1>1. CallsTyped /\ RowTyped /\ TablesTyped /\ WebTyped /\ PastTyped
  BY DEF Typed
<1>2. /\ CallsTyped' /\ requests' = requests + 1 /\ OthersStay(c)
      /\ call[c] = NoCall /\ requests < MaxRequests
      /\ call'[c].kind = kind /\ call'[c].serial = requests + 1
      /\ call'[c].todo = request.todo /\ call'[c].family = request.family
      /\ call'[c].user = request.user /\ call'[c].basis = request.basis
  BY <1>1, BeginMoves
<1>3. call'[c] \in Records /\ request.todo \in Seq(Steps)
  BY <1>2 DEF CallsTyped, Records
<1>4. Typed'
  BY <1>1, <1>2, StaysTyped DEF Typed, WebTyped
<1>5. UserKnown(call'[c])
  BY <1>2, <1>3, BeginKnowsUser
<1>6. UserInv'
  BY <1>5, <1>2 DEF UserInv, OthersStay
<1> HIDE DEF Plan
<1>7. UNCHANGED <<token, stored, jwt, lost, slipped, alarmed, account, password>>
  BY DEF tableVars, pastVars, rowVars
<1>8. Begins(c)
  BY <1>2, <1>3, <1>7 DEF Begins
<1> QED
  BY <1>4, <1>6, <1>8

\* A request that begins keeps the types.
LEMMA RequestTyped ==
  ASSUME Typed, UserInv, NEW c \in Calls, Request(c)
  PROVE  Typed' /\ UserInv' /\ Begins(c)
<1>1. CallsTyped /\ RowTyped /\ TablesTyped /\ WebTyped /\ PastTyped
  BY DEF Typed
<1>2. 0 \in Serials /\ (requests < MaxRequests => requests + 1 \in Serials)
  BY <1>1, ConstantsOK DEF CallsTyped, Serials
<1>3. "bio" \in Fields /\ NoUser \in Users \cup {NoUser} /\ password \in Serials
  BY <1>1 DEF Fields, RowTyped
<1>4. \A k \in DOMAIN Plan : Plan[k] \in Seq(Steps)
  BY PlansTyped
<1>5. /\ DOMAIN Plan = {"signup", "login", "refresh", "logout", "change", "delete", "profile", "resend",
                       "forgot", "reset", "verify", "ban", "release", "admindelete"}
      /\ Plan["signup"] = SignupSteps /\ Plan["login"] = LoginSteps /\ Plan["refresh"] = RefreshToken
      /\ Plan["logout"] = Logout /\ Plan["forgot"] = ForgotPassword
  BY DEF Plan
<1>6. NoCall.family = 0 /\ NoCall.todo = <<>> /\ NoCall.basis = 0
  BY DEF NoCall
<1> HIDE DEF Plan, NoCall, SignupSteps, LoginSteps, RefreshToken, Logout, ForgotPassword
<1>7. ASSUME NEW b \in Browsers, Signup(c, b) PROVE Typed' /\ UserInv' /\ Begins(c)
  <2> DEFINE request == [NoCall EXCEPT !.todo = SignupSteps, !.by = b, !.family = requests + 1]
  <2>1. Begin(c, "signup", request) /\ requests < MaxRequests
    BY <1>7 DEF Signup, Begin
  <2>2. /\ request \in Records /\ request.todo = Plan["signup"] /\ request.family = requests + 1
        /\ request.basis = 0
    BY <1>2, <1>4, <1>5, <1>6, <2>1, NoCallTyped DEF Records
  <2> HIDE DEF request
  <2>3. BasisOf("signup") = 0 /\ MayBegin("signup")
    BY DEF BasisOf, MayBegin
  <2> QED
    BY <1>5, <1>7, <2>1, <2>2, <2>3, PlainBegin DEF Signup, webVars
<1>8. ASSUME NEW b \in Browsers, Login(c, b) PROVE Typed' /\ UserInv' /\ Begins(c)
  <2> DEFINE request == [NoCall EXCEPT !.todo = LoginSteps, !.by = b, !.family = requests + 1,
                                       !.basis = password]
  <2>1. Begin(c, "login", request) /\ requests < MaxRequests
    BY <1>8 DEF Login, Begin
  <2>2. /\ request \in Records /\ request.todo = Plan["login"] /\ request.family = requests + 1
        /\ request.basis = password
    BY <1>2, <1>3, <1>4, <1>5, <2>1, NoCallTyped DEF Records
  <2> HIDE DEF request
  <2>3. BasisOf("login") = password /\ MayBegin("login")
    BY <1>8 DEF BasisOf, MayBegin, Login
  <2> QED
    BY <1>5, <1>8, <2>1, <2>2, <2>3, PlainBegin DEF Login, webVars
<1>9. ASSUME NEW b \in Browsers, Refresh(c, b) PROVE Typed' /\ UserInv' /\ Begins(c)
  <2> DEFINE t == token[stored[b]]
             todo == IF t.status = "stale" THEN Logout ELSE RefreshToken
             request == [NoCall EXCEPT !.todo = todo, !.by = b, !.ref = stored[b],
                                       !.family = t.family, !.basis = t.basis]
  <2>1. /\ Begin(c, "refresh", request) /\ stored[b] # Nothing /\ t.status \in {"active", "stale"}
        /\ alarmed' = (alarmed \/ t.status = "stale")
    BY <1>9 DEF Refresh
  <2>2. stored[b] \in Serials /\ t \in Tokens
    BY <1>1, <2>1 DEF WebTyped, TablesTyped
  <2>3. todo \in Seq(Steps)
    BY <1>4, <1>5
  <2>4. RefreshToken # Logout
    BY DEF RefreshToken, Logout
  <2>5. todo = Logout <=> t.status = "stale"
    BY <2>4
  <2>6. todo = Plan["refresh"] \/ todo = Logout
    BY <1>5
  <2> HIDE DEF t, todo
  <2>7. /\ request \in Records /\ request.todo = todo /\ request.by = b /\ request.ref = stored[b]
        /\ request.family = t.family /\ request.basis = t.basis
    BY <2>2, <2>3, NoCallTyped DEF Records, Tokens
  <2> HIDE DEF request
  <2>8. /\ CallsTyped' /\ requests' = requests + 1 /\ OthersStay(c)
        /\ call[c] = NoCall /\ requests < MaxRequests
        /\ call'[c].kind = "refresh" /\ call'[c].serial = requests + 1
        /\ call'[c].todo = todo /\ call'[c].by = b /\ call'[c].ref = stored[b]
        /\ call'[c].family = t.family /\ call'[c].basis = t.basis
    BY <1>1, <1>5, <2>1, <2>7, BeginMoves
  <2>9. UNCHANGED <<rowVars, tableVars, webVars, slipped, lost>>
    BY <1>9 DEF Refresh
  <2>10. Typed'
    BY <1>1, <2>1, <2>8, <2>9, StaysTyped DEF Typed, PastTyped
  <2>11. UserKnown(call'[c])
    <3>1. call'[c] \in Records
      BY <2>8 DEF CallsTyped
    <3> QED
      BY <1>5, <2>6, <2>8, <3>1, BeginKnowsUser
  <2>12. UserInv'
    BY <2>8, <2>11 DEF UserInv, OthersStay
  <2>13. Begins(c)
    <3>1. UNCHANGED <<token, stored, jwt, lost, slipped, account, password>>
      BY <2>9 DEF tableVars, webVars, rowVars
    <3>2. t.status = (IF todo = Logout THEN "stale" ELSE "active") /\ alarmed' = (alarmed \/ todo = Logout)
      BY <2>1, <2>5
    <3>3. "refresh" \in DOMAIN Plan
      BY <1>5
    <3> QED
      BY <2>1, <2>3, <2>6, <2>8, <3>1, <3>2, <3>3 DEF Begins, t
  <2> QED
    BY <2>10, <2>12, <2>13
<1>10. ASSUME NEW b \in Browsers, NEW kind \in NeedsUser, NEW f \in Fields, Authenticated(c, b, kind, f)
       PROVE  Typed' /\ UserInv' /\ Begins(c)
  <2> DEFINE n == requests + 1
             known == [NoCall EXCEPT !.by = b, !.field = f, !.user = Kept(kind, cache')]
             asked == IF kind = "change" THEN [known EXCEPT !.family = n, !.basis = n] ELSE known
             todo == (IF cache' = NoUser THEN <<"load", "put">> ELSE <<>>) \o Plan[kind]
             request == [asked EXCEPT !.todo = todo]
  <2>1. Begin(c, kind, request) /\ requests < MaxRequests /\ cache' \in {cache, NoUser}
    BY <1>10 DEF Authenticated, Begin
  <2>2. kind \in DOMAIN Plan /\ Plan[kind] \in Seq(Steps) /\ kind # "refresh" /\ kind \notin {"signup", "login"}
    BY <1>4, <1>5 DEF NeedsUser
  <2>3. todo \in Seq(Steps)
    <3>1. "load" \in Steps /\ "put" \in Steps
      BY DEF Steps
    <3> QED
      BY <2>2, <3>1
  <2>4. todo = Plan[kind] \/ todo = <<"load", "put">> \o Plan[kind]
    BY <2>2
  <2>5. /\ cache' = NoUser => todo = <<"load", "put">> \o Plan[kind]
        /\ Kept(kind, cache') \in Users \cup {NoUser} /\ (kind = "profile" => Kept(kind, cache') = cache')
    BY <1>1, <2>1 DEF WebTyped, Kept
  <2> HIDE DEF todo
  <2>6. /\ known \in Records /\ known.user = Kept(kind, cache') /\ known.family = 0 /\ known.basis = 0
    BY <1>6, <2>5, NoCallTyped DEF Records
  <2> HIDE DEF known
  <2>7. /\ asked \in Records /\ asked.user = Kept(kind, cache')
        /\ asked.family = IF kind = "change" THEN requests + 1 ELSE 0
        /\ asked.basis = IF kind = "change" THEN requests + 1 ELSE 0
    BY <1>2, <2>1, <2>6 DEF Records
  <2> HIDE DEF asked
  <2>8. /\ request \in Records /\ request.todo = todo /\ request.user = Kept(kind, cache')
        /\ request.family = IF kind = "change" THEN requests + 1 ELSE 0
        /\ request.basis = IF kind = "change" THEN requests + 1 ELSE 0
    BY <2>3, <2>7 DEF Records
  <2> HIDE DEF request
  <2>9. cache' # NoUser => cache' \in Users
    BY <1>1, <2>1 DEF WebTyped
  <2>10. \/ request.todo = Plan[kind] /\ (kind = "profile" => request.user \in Users)
         \/ kind \in NeedsUser /\ request.todo = <<"load", "put">> \o Plan[kind]
    BY <2>4, <2>5, <2>8, <2>9
  <2>11. request.family = IF kind \in {"signup", "login", "change"} THEN requests + 1 ELSE 0
    BY <2>2, <2>8
  <2>12. UNCHANGED <<rowVars, tableVars, stored, jwt, pastVars>>
    BY <1>10 DEF Authenticated
  <2>13. request.basis = BasisOf(kind) /\ MayBegin(kind)
    BY <1>10, <2>2, <2>8 DEF BasisOf, MayBegin, Authenticated
  <2> QED
    BY <2>1, <2>2, <2>8, <2>10, <2>11, <2>12, <2>13, PlainBegin
<1>11. ASSUME NEW kind \in {"forgot", "reset", "verify", "ban", "release", "admindelete"}, NEW k \in Serials,
              \/ Begin(c, kind, [NoCall EXCEPT !.todo = Plan[kind]])
              \/ Begin(c, kind, [NoCall EXCEPT !.todo = Plan[kind], !.ref = k]),
              UNCHANGED <<rowVars, tableVars, webVars, pastVars>>
       PROVE  Typed' /\ UserInv' /\ Begins(c)
  <2>1. PICK request \in {[NoCall EXCEPT !.todo = Plan[kind]],
                          [NoCall EXCEPT !.todo = Plan[kind], !.ref = k]} : Begin(c, kind, request)
    BY <1>11
  <2>2. kind \in DOMAIN Plan /\ Plan[kind] \in Seq(Steps)
    BY <1>4, <1>5
  <2>3. request \in Records /\ request.todo = Plan[kind] /\ request.family = 0 /\ request.basis = 0
    BY <1>6, <2>1, <2>2, NoCallTyped DEF Records
  <2>4. BasisOf(kind) = 0 /\ MayBegin(kind)
    BY DEF BasisOf, MayBegin
  <2> QED
    BY <1>11, <2>1, <2>2, <2>3, <2>4, PlainBegin DEF webVars
<1>12. ASSUME Forgot(c) PROVE Typed' /\ UserInv' /\ Begins(c)
  BY <1>2, <1>5, <1>11, <1>12 DEF Forgot
<1>13. ASSUME NEW kind \in {"reset", "verify"}, NEW k \in Serials, FollowLink(c, kind, k)
       PROVE  Typed' /\ UserInv' /\ Begins(c)
  BY <1>11, <1>13 DEF FollowLink
<1>14. ASSUME NEW kind \in {"ban", "release", "admindelete"}, AdminRequest(c, kind)
       PROVE  Typed' /\ UserInv' /\ Begins(c)
  BY <1>2, <1>11, <1>14 DEF AdminRequest
<1> QED
  BY <1>3, <1>7, <1>8, <1>9, <1>10, <1>12, <1>13, <1>14 DEF Request

\* A statement of c runs: c goes on or ends, the others are as they were but for their user.
Moves(c) ==
    /\ call[c].todo # <<>> /\ (Ends(c) \/ GoesOn(c)) /\ requests' = requests
    /\ \A d \in Calls \ {c} : Alike(call'[d], call[d])

\* Those that leave the tokens alone or delete them all, ...
Runs(c) ==
    /\ Moves(c) /\ token' \in {token, [t \in Serials |-> NoToken]}
    /\ UNCHANGED <<stored, alarmed>> /\ (lost => lost')
    /\ Head(call[c].todo) \in {"rotate", "answer"} => Ends(c)
    /\ Ends(c) /\ Head(call[c].todo) \in {"recheck", "issue"} => Tail(call[c].todo) = <<>> \/ lost'
    /\ Head(call[c].todo) = "answer" /\ call[c].kind = "refresh" => lost'
\* ... and those that do not.
Rotates(c) ==
    /\ Moves(c) /\ Head(call[c].todo) = "rotate" /\ (Ends(c) => Tail(call[c].todo) = <<>>)
    /\ token[call[c].ref].status = "active"
    /\ token' = [token EXCEPT ![call[c].ref].status = "revoked"]
    /\ UNCHANGED <<stored, alarmed, lost>>
Issues(c) ==
    /\ Moves(c) /\ Head(call[c].todo) = "issue" /\ (Ends(c) => Tail(call[c].todo) = <<>>)
    /\ token' = [token EXCEPT ![call[c].serial] =
                   [status |-> "active", family |-> call[c].family, basis |-> call[c].basis]]
    /\ UNCHANGED <<stored, alarmed, lost>>
Answers(c) ==
    /\ Moves(c) /\ Head(call[c].todo) = "answer" /\ Ends(c)
    /\ stored' = [stored EXCEPT ![call[c].by] = call[c].serial]
    /\ UNCHANGED <<token, alarmed, lost>>

LEMMA FinishOnward ==
  ASSUME Typed, UserInv, NEW c \in Calls, call[c].todo # <<>>, Finish(c)
  PROVE  CallsTyped' /\ UserInv' /\ Moves(c) /\ Ends(c) /\ requests' = requests
<1>1. CallsTyped
  BY DEF Typed
<1>2. CallsTyped' /\ requests' = requests /\ Ends(c) /\ OthersStay(c)
  BY <1>1, FinishMoves
<1>3. UserKnown(NoCall)
  BY DEF UserKnown, NoCall
<1>4. UserInv'
  BY <1>2, <1>3 DEF UserInv, Ends, OthersStay
<1> QED
  BY <1>2, <1>4 DEF Moves, OthersStay, Alike

LEMMA ProceedOnward ==
  ASSUME Typed, UserInv, NEW c \in Calls, call[c].todo # <<>>,
         NEW known \in Records, Alike(known, call[c]), Proceed(c, known),
         Head(call[c].todo) = "load" => known.user \in Users,
         Head(call[c].todo) = "put" /\ call[c].kind = "profile" => known.user \in Users
  PROVE  /\ CallsTyped' /\ UserInv' /\ Moves(c) /\ (Ends(c) => Tail(call[c].todo) = <<>>)
         /\ requests' = requests
<1>1. CallsTyped /\ call[c] \in Records /\ UserKnown(call[c])
  BY DEF Typed, CallsTyped, UserInv
<1> DEFINE rest == Tail(call[c].todo)
<1>2. /\ CallsTyped' /\ requests' = requests /\ OthersStay(c)
      /\ IF rest = <<>> THEN Ends(c)
         ELSE GoesOn(c) /\ call'[c] = [known EXCEPT !.todo = rest]
  BY <1>1, ProceedMoves
<1>3. Moves(c)
  BY <1>2 DEF Moves, OthersStay, Alike
<1>4. rest # <<>> => ~Ends(c)
  BY <1>2 DEF GoesOn, Ends, Alike, NoCall, Records
<1>5. UserKnown(call'[c])
  <2>1. CASE rest = <<>>
    BY <1>2, <2>1 DEF Ends, UserKnown, NoCall
  <2>2. CASE rest # <<>>
    <3>1. call'[c] \in Records
      BY <1>2 DEF CallsTyped
    <3>2. call'[c].todo = rest /\ call'[c].kind = call[c].kind /\ call'[c].user = known.user
      BY <1>1, <1>2, <2>2 DEF Alike, GoesOn, Records
    <3>3. /\ Head(rest) = "write" => call[c].kind = "profile"
          /\ Head(rest) = "put" => Head(call[c].todo) = "load"
      <4>1. 2 \in DOMAIN call[c].todo /\ Head(rest) = call[c].todo[2] /\ Head(call[c].todo) = call[c].todo[1]
        BY <1>1, <2>2 DEF Records
      <4> QED
        BY <1>1, <4>1 DEF UserKnown
    <3> QED
      BY <1>1, <2>2, <3>1, <3>2, <3>3, UserKnownOnward
  <2> QED
    BY <2>1, <2>2
<1>6. UserInv'
  BY <1>2, <1>5 DEF UserInv, OthersStay
<1> QED
  BY <1>2, <1>3, <1>4, <1>6

LEMMA StatementTyped ==
  ASSUME Typed, UserInv, NEW c \in Calls, Statement(c)
  PROVE  Typed' /\ UserInv' /\ (Runs(c) \/ Rotates(c) \/ Issues(c) \/ Answers(c))
<1>1. CallsTyped /\ RowTyped /\ TablesTyped /\ WebTyped /\ PastTyped
  BY DEF Typed
<1>2. call[c] \in Records /\ UserKnown(call[c]) /\ NoUser \in Users \cup {NoUser}
  BY <1>1 DEF CallsTyped, UserInv
<1>3. Alike(call[c], call[c])
  BY DEF Alike
<1>4. /\ call[c].serial \in Serials /\ call[c].ref \in Serials /\ call[c].family \in Serials
      /\ call[c].basis \in Serials /\ call[c].user \in Users \cup {NoUser} /\ call[c].field \in Fields
  BY <1>2 DEF Records
<1>5. ASSUME call[c].todo # <<>>, Finish(c) \/ Proceed(c, call[c]),
             Head(call[c].todo) \notin {"load", "put"} \/ Finish(c)
      PROVE  CallsTyped' /\ UserInv' /\ Moves(c) /\ requests' = requests
             /\ (Proceed(c, call[c]) /\ ~Finish(c) => (Ends(c) => Tail(call[c].todo) = <<>>))
             /\ (Finish(c) => Ends(c))
  <2>1. CASE Finish(c)
    BY <1>5, <2>1, FinishOnward
  <2>2. CASE ~Finish(c)
    BY <1>2, <1>3, <1>5, <2>2, ProceedOnward
  <2> QED
    BY <2>1, <2>2
<1> USE DEF At
<1>6. ASSUME UNCHANGED <<token, stored, alarmed>>, lost => lost', Moves(c),
             Head(call[c].todo) \notin {"rotate", "answer", "issue", "recheck"}
      PROVE  Runs(c)
  BY <1>6 DEF Runs
<1>7. ASSUME Create(c) PROVE Typed' /\ UserInv' /\ Runs(c)
  <2>1. /\ [call[c] EXCEPT !.basis = call[c].serial] \in Records
        /\ Alike([call[c] EXCEPT !.basis = call[c].serial], call[c])
    BY <1>2, <1>4, RecordsKnow
  <2>2. CallsTyped' /\ UserInv' /\ Moves(c)
    BY <1>7, <2>1, FinishOnward, ProceedOnward DEF Create
  <2>3. RowTyped'
    BY <1>1, <1>4, <1>7 DEF Create, RowTyped
  <2> QED
    BY <1>1, <1>6, <1>7, <2>2, <2>3, StaysTyped DEF Create, Typed, tableVars, webVars, pastVars
<1>8. ASSUME Retire(c) \/ Mail(c) \/ Mark(c) PROVE Typed' /\ UserInv' /\ Runs(c)
  <2>1. CallsTyped' /\ UserInv' /\ Moves(c)
    BY <1>5, <1>8 DEF Retire, Mail, Mark
  <2>2. TablesTyped'
    BY <1>1, <1>4, <1>8 DEF Retire, Mail, Mark, TablesTyped
  <2> QED
    BY <1>1, <1>6, <1>8, <2>1, <2>2, StaysTyped DEF Retire, Mail, Mark, Typed, webVars, pastVars
<1>9. ASSUME Judge(c) \/ SetPassword(c) \/ Ban(c) \/ Release(c) PROVE Typed' /\ UserInv' /\ Runs(c)
  <2>1. CallsTyped' /\ UserInv' /\ Moves(c)
    BY <1>5, <1>9 DEF Judge, SetPassword, Ban, Release
  <2>2. RowTyped'
    BY <1>1, <1>4, <1>9 DEF Judge, SetPassword, Ban, Release, RowTyped
  <2> QED
    BY <1>1, <1>6, <1>9, <2>1, <2>2, StaysTyped
       DEF Judge, SetPassword, Ban, Release, Typed, tableVars, webVars, pastVars
<1>10. ASSUME Rotate(c) PROVE Typed' /\ UserInv' /\ (Runs(c) \/ Rotates(c))
  <2>1. CallsTyped' /\ UserInv' /\ Moves(c)
    BY <1>5, <1>10 DEF Rotate
  <2>2. TablesTyped' /\ PastTyped'
    BY <1>1, <1>4, <1>10 DEF Rotate, TablesTyped, Tokens, PastTyped, Heir
  <2>3. CASE token[call[c].ref].status = "active"
    <3>1. Ends(c) => Tail(call[c].todo) = <<>>
      BY <1>2, <1>3, <1>10, <2>3, ProceedOnward DEF Rotate
    <3> QED
      BY <1>1, <1>10, <2>1, <2>2, <2>3, <3>1, StaysTyped DEF Rotate, Rotates, Typed, webVars
  <2>4. CASE token[call[c].ref].status # "active"
    <3>1. Ends(c)
      BY <1>5, <1>10, <2>4 DEF Rotate
    <3> QED
      BY <1>1, <1>10, <2>1, <2>2, <2>4, <3>1, StaysTyped DEF Rotate, Runs, Typed, webVars
  <2> QED
    BY <2>3, <2>4
<1>11. ASSUME Recheck(c) PROVE Typed' /\ UserInv' /\ Runs(c)
  <2>1. [call[c] EXCEPT !.user = UserRow] \in Records /\ Alike([call[c] EXCEPT !.user = UserRow], call[c])
    BY <1>1, <1>2, <1>4, RowIsUser, RecordsKnow
  <2>2. CallsTyped' /\ UserInv' /\ Moves(c)
    BY <1>11, <2>1, FinishOnward, ProceedOnward DEF Recheck
  <2>3. CASE account = "live" /\ ~banned
    <3>1. Ends(c) => Tail(call[c].todo) = <<>>
      BY <1>11, <2>1, <2>3, ProceedOnward DEF Recheck
    <3> QED
      BY <1>1, <1>11, <2>2, <2>3, <3>1, StaysTyped DEF Recheck, Runs, Typed, PastTyped, tableVars, webVars
  <2>4. CASE ~(account = "live" /\ ~banned)
    BY <1>1, <1>11, <2>2, <2>4, StaysTyped DEF Recheck, Runs, Typed, PastTyped, tableVars, webVars
  <2> QED
    BY <2>3, <2>4
<1>12. ASSUME Issue(c) PROVE Typed' /\ UserInv' /\ (Runs(c) \/ Issues(c))
  <2>1. CallsTyped' /\ UserInv' /\ Moves(c) /\ (Ends(c) => Tail(call[c].todo) = <<>>)
    BY <1>2, <1>3, <1>12, ProceedOnward DEF Issue
  <2>2. TablesTyped'
    BY <1>1, <1>4, <1>12 DEF Issue, TablesTyped, Tokens
  <2>3. Typed'
    BY <1>1, <1>12, <2>1, <2>2, StaysTyped DEF Issue, Typed, webVars
  <2>4. Runs(c) \/ Issues(c)
    BY <1>12, <2>1 DEF Issue, Issues, Runs, webVars, pastVars
  <2> QED
    BY <2>1, <2>3, <2>4
<1>13. ASSUME Answer(c) PROVE Typed' /\ UserInv' /\ Answers(c)
  <2>1. CallsTyped' /\ UserInv' /\ Moves(c) /\ Ends(c)
    BY <1>13, FinishOnward DEF Answer
  <2>2. WebTyped'
    BY <1>1, <1>4, <1>13 DEF Answer, WebTyped
  <2> QED
    BY <1>1, <1>13, <2>1, <2>2, StaysTyped DEF Answer, Answers, Typed, tableVars, pastVars
<1>14. ASSUME Revoke(c) PROVE Typed' /\ UserInv' /\ Runs(c)
  <2>1. CallsTyped' /\ UserInv' /\ Moves(c)
    BY <1>5, <1>14 DEF Revoke
  <2>2. NoToken \in Tokens
    BY ConstantsOK DEF NoToken, Tokens, Serials
  <2>3. TablesTyped'
    BY <1>1, <1>14, <2>2 DEF Revoke, TablesTyped
  <2>4. slipped' \subseteq Serials
    BY <1>1, <1>14 DEF Revoke, Outlive, InFlight, Issuing, PastTyped, CallsTyped, Records
  <2> QED
    BY <1>1, <1>14, <2>1, <2>3, <2>4, StaysTyped DEF Revoke, Runs, Typed, PastTyped, webVars
<1>15. ASSUME Drop(c) PROVE Typed' /\ UserInv' /\ Runs(c)
  <2>1. CallsTyped' /\ UserInv' /\ Moves(c)
    BY <1>15, FinishOnward DEF Drop
  <2>2. NoToken \in Tokens /\ 0 \in Serials
    BY ConstantsOK DEF NoToken, Tokens, Serials
  <2>3. TablesTyped' /\ RowTyped'
    BY <1>1, <1>15, <2>2 DEF Drop, TablesTyped, RowTyped, Profiles
  <2> QED
    BY <1>1, <1>15, <2>1, <2>3, StaysTyped DEF Drop, Runs, Typed, PastTyped, webVars
<1>16. ASSUME Write(c) PROVE Typed' /\ UserInv' /\ Runs(c)
  <2>1. CallsTyped' /\ UserInv' /\ Moves(c)
    BY <1>5, <1>16 DEF Write
  <2>2. call[c].user \in Users
    <3>1. 1 \in DOMAIN call[c].todo /\ call[c].todo[1] = "write"
      BY <1>2, <1>16 DEF Write, Records
    <3> QED
      BY <1>2, <3>1 DEF UserKnown
  <2>3. [call[c].user.profile EXCEPT ![call[c].field] = call[c].serial] \in Profiles
    BY <1>4, <2>2 DEF Users, Profiles
  <2>4. RowTyped'
    BY <1>1, <1>16, <2>3 DEF Write, RowTyped
  <2> QED
    BY <1>1, <1>6, <1>16, <2>1, <2>4, StaysTyped DEF Write, Typed, tableVars, webVars, pastVars
<1>17. ASSUME Forget(c) PROVE Typed' /\ UserInv' /\ Runs(c)
  <2>1. ASSUME NEW d \in Calls
        PROVE  /\ call'[d] \in Records /\ UserKnown(call'[d])
               /\ IF d = c THEN call'[d] = NoCall ELSE Alike(call'[d], call[d])
    <3>1. call[d] \in Records /\ UserKnown(call[d])
      BY <1>1 DEF CallsTyped, UserInv
    <3>2. CASE d = c
      BY <1>17, <3>2, NoCallTyped DEF Forget, UserKnown, NoCall
    <3>3. CASE d # c /\ ~At(d, "put")
      BY <1>17, <3>1, <3>3 DEF Forget, Alike
    <3>4. CASE d # c /\ At(d, "put")
      <4>1. 1 \in DOMAIN call[d].todo /\ call[d].todo[1] = "put"
        BY <3>1, <3>4 DEF Records
      <4>2. call[d].user \in Users
        BY <3>1, <4>1 DEF UserKnown
      <4>3. [call[d].user EXCEPT !.late = TRUE] \in Users
        BY <4>2 DEF Users
      <4>4. call'[d] = [call[d] EXCEPT !.user = [call[d].user EXCEPT !.late = TRUE]]
        BY <1>17, <3>4 DEF Forget
      <4>5. /\ call'[d] \in Records /\ Alike(call'[d], call[d])
            /\ call'[d].user = [call[d].user EXCEPT !.late = TRUE]
        BY <3>1, <4>3, <4>4 DEF Records, Alike
      <4> QED
        BY <3>1, <3>4, <4>3, <4>5 DEF UserKnown, Alike
    <3> QED
      BY <3>2, <3>3, <3>4
  <2>2. CallsTyped' /\ UserInv'
    BY <1>1, <1>17, <2>1 DEF Forget, CallsTyped, UserInv
  <2>3. Moves(c)
    BY <1>17, <2>1 DEF Forget, Moves, Ends
  <2>4. WebTyped'
    BY <1>1, <1>17 DEF Forget, WebTyped
  <2> QED
    BY <1>1, <1>6, <1>17, <2>2, <2>3, <2>4, StaysTyped DEF Forget, Typed, tableVars, pastVars
<1>18. ASSUME Load(c) PROVE Typed' /\ UserInv' /\ Runs(c)
  <2>1. /\ [call[c] EXCEPT !.user = UserRow] \in Records /\ Alike([call[c] EXCEPT !.user = UserRow], call[c])
        /\ [call[c] EXCEPT !.user = UserRow].user \in Users
    BY <1>1, <1>2, <1>4, RowIsUser, RecordsKnow DEF Records
  <2>2. CallsTyped' /\ UserInv' /\ Moves(c)
    BY <1>18, <2>1, FinishOnward, ProceedOnward DEF Load
  <2> QED
    BY <1>1, <1>6, <1>18, <2>2, StaysTyped DEF Load, Typed, tableVars, webVars, pastVars
<1>19. ASSUME Put(c) PROVE Typed' /\ UserInv' /\ Runs(c)
  <2> DEFINE kept == Kept(call[c].kind, call[c].user)
             known == [call[c] EXCEPT !.user = kept]
  <2>1. call[c].user \in Users
    <3>1. 1 \in DOMAIN call[c].todo /\ call[c].todo[1] = "put"
      BY <1>2, <1>19 DEF Put, Records
    <3> QED
      BY <1>2, <3>1 DEF UserKnown
  <2>2. kept \in Users \cup {NoUser} /\ (call[c].kind = "profile" => kept \in Users)
    BY <2>1 DEF Kept
  <2>3. Finish(c) \/ Proceed(c, known)
    BY <1>19 DEF Put
  <2> HIDE DEF kept
  <2>4. known \in Records /\ Alike(known, call[c]) /\ known.user = kept
    BY <1>2, <1>4, <2>2, RecordsKnow DEF Records
  <2> HIDE DEF known
  <2>5. CallsTyped' /\ UserInv' /\ Moves(c)
    BY <1>19, <2>2, <2>3, <2>4, FinishOnward, ProceedOnward DEF Put
  <2>6. WebTyped'
    BY <1>1, <1>19, <2>1 DEF Put, WebTyped
  <2> QED
    BY <1>1, <1>6, <1>19, <2>5, <2>6, StaysTyped DEF Put, Typed, tableVars, pastVars
<1>20. ASSUME Fail(c) PROVE Typed' /\ UserInv' /\ Runs(c)
  <2>1. /\ call[c].todo # <<>> /\ Head(call[c].todo) \notin {"put", "forget", "answer"}
        /\ IF Head(call[c].todo) \in Essential THEN Finish(c) ELSE Proceed(c, call[c])
    BY <1>20 DEF Fail, InMemory
  <2>2. CallsTyped' /\ UserInv' /\ Moves(c) /\ (Head(call[c].todo) = "rotate" => Ends(c))
        /\ (Head(call[c].todo) \in {"recheck", "issue"} /\ Ends(c) => Tail(call[c].todo) = <<>>)
    <3>1. CASE Head(call[c].todo) \in Essential
      <4>1. Head(call[c].todo) \notin {"recheck", "issue"}
        BY <3>1 DEF Essential
      <4> QED
        BY <2>1, <3>1, <4>1, FinishOnward
    <3>2. CASE Head(call[c].todo) \notin Essential
      <4>1. Head(call[c].todo) \notin {"rotate", "load"}
        BY <3>2 DEF Essential
      <4> QED
        BY <1>2, <1>3, <2>1, <3>2, <4>1, ProceedOnward
    <3> QED
      BY <3>1, <3>2
  <2>3. slipped' \subseteq Serials
    BY <1>1, <1>4, <1>20 DEF Fail, InFlight, Issuing, PastTyped, CallsTyped, Records
  <2>4. UNCHANGED <<rowVars, tableVars, webVars, lost, alarmed>>
    BY <1>20 DEF Fail
  <2>5. Runs(c)
    BY <2>1, <2>2, <2>4 DEF Runs, tableVars, webVars
  <2>6. Typed'
    BY <1>1, <2>2, <2>3, <2>4, StaysTyped DEF Typed, PastTyped
  <2> QED
    BY <2>2, <2>5, <2>6
<1>21. ASSUME Lose(c) PROVE Typed' /\ UserInv' /\ Runs(c)
  <2>1. CallsTyped' /\ UserInv' /\ Moves(c) /\ Ends(c)
    BY <1>21, FinishOnward DEF Lose
  <2> QED
    BY <1>1, <1>21, <2>1, StaysTyped DEF Lose, Runs, Typed, PastTyped, tableVars, webVars
<1> QED
  BY <1>7, <1>8, <1>9, <1>10, <1>11, <1>12, <1>13, <1>14, <1>15, <1>16, <1>17, <1>18, <1>19, <1>20,
     <1>21 DEF Statement

\* What a step is for the tokens, the browsers and the requests.
Quiet == UNCHANGED <<call, requests, token, stored, lost, alarmed>>
StepKinds == \/ \E c \in Calls : Begins(c) \/ Runs(c) \/ Rotates(c) \/ Issues(c) \/ Answers(c)
             \/ \E t \in Serials : GraceEnds(t)
             \/ Quiet

LEMMA NextTyped == Typed /\ UserInv /\ [Next]_vars => Typed' /\ UserInv' /\ StepKinds
<1> SUFFICES ASSUME Typed, UserInv, [Next]_vars PROVE Typed' /\ UserInv' /\ StepKinds
  OBVIOUS
<1>1. ASSUME NEW c \in Calls, Request(c) PROVE Typed' /\ UserInv' /\ StepKinds
  BY <1>1, RequestTyped DEF StepKinds
<1>2. ASSUME NEW c \in Calls, Statement(c) PROVE Typed' /\ UserInv' /\ StepKinds
  BY <1>2, StatementTyped DEF StepKinds
<1>3. ASSUME GrowOld PROVE Typed' /\ UserInv' /\ StepKinds
  <2>1. RowTyped' /\ CallsTyped' /\ UserInv'
    BY <1>3 DEF GrowOld, Typed, RowTyped, CallsTyped, UserInv
  <2> QED
    BY <1>3, <2>1, StaysTyped DEF GrowOld, Typed, StepKinds, Quiet, tableVars, webVars, pastVars
<1>4. ASSUME NEW t \in Serials, GraceEnds(t) PROVE Typed' /\ UserInv' /\ StepKinds
  <2>1. TablesTyped' /\ CallsTyped' /\ UserInv'
    BY <1>4 DEF GraceEnds, Typed, TablesTyped, Tokens, CallsTyped, UserInv
  <2> QED
    BY <1>4, <2>1, StaysTyped DEF GraceEnds, Typed, StepKinds, webVars, pastVars
<1>5. ASSUME UNCHANGED vars PROVE Typed' /\ UserInv' /\ StepKinds
  <2>1. CallsTyped' /\ UserInv' /\ Quiet
    BY <1>5 DEF vars, Typed, CallsTyped, UserInv, Quiet, tableVars, webVars, pastVars
  <2> QED
    BY <1>5, <2>1, StaysTyped DEF vars, Typed, StepKinds
<1> QED
  BY <1>1, <1>2, <1>3, <1>4, <1>5 DEF Next, TimePasses, Rest

\* Every variable of Accounts keeps its type; above all, the profile is never written by a
\* request that has not read the user.
THEOREM TypeCorrect == Spec => []TypeOK
<1>1. Typed => TypeOK
  BY TypeParts
<1> QED
  BY <1>1, InitTyped, NextTyped, PTL DEF Spec

-----------------------------------------------------------------------------
(* The requests under way *)

\* Requests have serial numbers of their own; a list of statements is run in order, so that a
\* refresh that has not rotated has all of it ahead.
CallInv == \A c \in Calls :
    /\ NoRepeats(call[c].todo)
    /\ Still(c) # {} => call[c].serial \in 1..requests /\ call[c].family <= requests
    /\ \A d \in Calls : c # d /\ Still(c) # {} /\ Still(d) # {} => call[c].serial # call[d].serial
    /\ "rotate" \in Still(c) => call[c].kind = "refresh" /\ call[c].todo = RefreshToken
    /\ call[c].kind = "refresh" /\ "answer" \in Still(c) =>
         Still(c) \subseteq {"rotate", "recheck", "issue", "answer"}

\* No request names a token that another is about to insert; what names a token names its family.
TokenInv ==
    /\ \A t \in Serials : token[t].status # "none" => t <= requests /\ token[t].family <= requests
    /\ \A c \in Calls : "issue" \in Still(c) => token[call[c].serial].status = "none"
    /\ \A c \in Calls : "rotate" \in Still(c) =>
         /\ call[c].ref <= requests
         /\ token[call[c].ref].status # "none" => token[call[c].ref].family = call[c].family
         /\ \A d \in Calls : "issue" \in Still(d) => call[c].ref # call[d].serial

\* A request is still the same, as far as it is still under way.
SameCall(d) == /\ call'[d].kind = call[d].kind /\ call'[d].by = call[d].by
               /\ call'[d].ref = call[d].ref /\ call'[d].serial = call[d].serial
               /\ call'[d].family = call[d].family

LEMMA MovesView ==
  ASSUME Typed, CallInv, NEW c \in Calls, Moves(c)
  PROVE  /\ CallInv'
         /\ \A d \in Calls \ {c} : Still(d)' = Still(d) /\ SameCall(d)
         /\ Head(call[c].todo) \in Still(c)
         /\ Ends(c) => Still(c)' = {}
         /\ ~Ends(c) => Still(c)' = Still(c) \ {Head(call[c].todo)} /\ SameCall(c)
<1>1. CallsTyped /\ call[c] \in Records /\ call[c].todo \in Seq(Steps) /\ call[c].todo # <<>>
  BY DEF Typed, CallsTyped, Records, Moves
<1> DEFINE rest == Tail(call[c].todo)
<1>2. /\ rest \in Seq(Steps) /\ Head(call[c].todo) \in Still(c) /\ Range(rest) = Still(c) \ {Head(call[c].todo)}
      /\ NoRepeats(rest)
  BY <1>1, TailFacts DEF Still, CallInv
<1>3. \A d \in Calls \ {c} : Still(d)' = Still(d) /\ SameCall(d) /\ call'[d].todo = call[d].todo
  BY DEF Moves, Alike, SameCall, Still
<1>4. CASE Ends(c)
  <2>1. call'[c].todo = <<>> /\ Still(c)' = {}
    BY <1>4 DEF Ends, NoCall, Still, Range
  <2>2. NoRepeats(call'[c].todo)
    BY <2>1 DEF NoRepeats
  <2>3. CallInv'
    BY <1>3, <2>1, <2>2 DEF CallInv, SameCall, Moves
  <2> QED
    BY <1>2, <1>3, <1>4, <2>1, <2>3
<1>5. CASE ~Ends(c)
  <2>1. call'[c].todo = rest /\ SameCall(c)
    BY <1>1, <1>5 DEF Moves, GoesOn, Alike, SameCall, Records
  <2> HIDE DEF rest
  <2>2. Still(c)' = Still(c) \ {Head(call[c].todo)}
    BY <1>2, <2>1 DEF Still
  <2>3. "rotate" \notin Still(c)'
    BY <1>2, <2>2, RefreshFacts DEF CallInv
  <2>4. requests' = requests
    BY DEF Moves
  <2>5. CallInv'
    BY <1>2, <1>3, <2>1, <2>2, <2>3, <2>4 DEF CallInv, SameCall
  <2> QED
    BY <1>2, <1>3, <1>5, <2>1, <2>2, <2>5
<1> QED
  BY <1>4, <1>5

\* What the new request may be: a refresh of a good token, of a spent one, or another request.
FreshRefresh(c, b) ==
    /\ call'[c].kind = "refresh" /\ Still(c)' = {"rotate", "recheck", "issue", "answer"}
    /\ stored[b] # Nothing /\ call'[c].by = b /\ call'[c].ref = stored[b]
    /\ call'[c].family = token[stored[b]].family /\ token[stored[b]].status = "active"
    /\ alarmed' = alarmed
Replay(c, b) ==
    /\ Still(c)' = {"revoke"} /\ stored[b] # Nothing /\ token[stored[b]].status = "stale"
Fresh(c) ==
    /\ call'[c].kind # "refresh" /\ "rotate" \notin Still(c)' /\ alarmed' = alarmed
    /\ "issue" \in Still(c)' => call'[c].family = requests + 1

LEMMA BeginsView ==
  ASSUME Typed, CallInv, TokenInv, NEW c \in Calls, Begins(c)
  PROVE  /\ CallInv' /\ Still(c) = {} /\ call[c].kind = "none" /\ call'[c].serial = requests + 1
         /\ requests' = requests + 1 /\ requests \in Nat
         /\ \A d \in Calls \ {c} : Still(d)' = Still(d) /\ SameCall(d)
         /\ \/ Fresh(c)
            \/ \E b \in Browsers : FreshRefresh(c, b) \/ Replay(c, b)
<1> DEFINE todo == call'[c].todo
<1>1. PICK kind \in DOMAIN Plan :
        /\ todo \in Seq(Steps)
        /\ call[c] = NoCall /\ requests < MaxRequests /\ requests' = requests + 1 /\ OthersStay(c)
        /\ call'[c].kind = kind /\ call'[c].serial = requests + 1
        /\ \/ todo = Plan[kind]
           \/ kind \in NeedsUser /\ todo = <<"load", "put">> \o Plan[kind]
           \/ kind = "refresh" /\ todo = Logout
        /\ \/ kind = "refresh" /\ \E b \in Browsers :
                /\ stored[b] # Nothing /\ call'[c].by = b /\ call'[c].ref = stored[b]
                /\ call'[c].family = token[stored[b]].family
                /\ token[stored[b]].status = IF todo = Logout THEN "stale" ELSE "active"
                /\ alarmed' = (alarmed \/ todo = Logout)
           \/ /\ kind # "refresh" /\ alarmed' = alarmed
              /\ call'[c].family = IF kind \in {"signup", "login", "change"} THEN requests + 1 ELSE 0
  BY DEF Begins
<1>2. /\ NoRepeats(Plan[kind]) /\ Plan[kind] \in Seq(Steps)
      /\ \A i \in DOMAIN Plan[kind] : /\ Plan[kind][i] \notin {"load", "put"}
                                      /\ Plan[kind][i] = "rotate" => kind = "refresh"
                                      /\ Plan[kind][i] = "issue" => kind \in {"signup", "login", "refresh", "change"}
  BY PlanFacts, PlansTyped DEF Range
<1>3. CallsTyped /\ requests \in Nat
  BY ConstantsOK DEF Typed, CallsTyped, Serials
<1>4. "refresh" \notin NeedsUser
  BY DEF NeedsUser
<1>5. Plan["refresh"] = RefreshToken /\ RefreshToken # Logout
  BY RefreshFacts DEF RefreshToken, Logout
<1> HIDE DEF todo, Plan
<1>6. Still(c)' = Range(todo)
  BY DEF Still, todo
<1>7. /\ NoRepeats(todo)
      /\ \/ todo = Logout
         \/ "rotate" \in Range(todo) => kind = "refresh" /\ todo = Plan[kind]
      /\ "issue" \in Range(todo) => kind \in {"signup", "login", "refresh", "change"}
  <2>1. CASE todo = Plan[kind]
    BY <1>2, <2>1 DEF Range
  <2>2. CASE kind \in NeedsUser /\ todo = <<"load", "put">> \o Plan[kind]
    <3>1. /\ todo[1] = "load" /\ todo[2] = "put" /\ DOMAIN todo \subseteq Nat
          /\ \A i \in DOMAIN todo : i \notin {1, 2} => i - 2 \in DOMAIN Plan[kind] /\ todo[i] = Plan[kind][i - 2]
      BY <1>2, <2>2, LoadPut
    <3>2. NoRepeats(todo)
      <4> SUFFICES ASSUME NEW i \in DOMAIN todo, NEW j \in DOMAIN todo, todo[i] = todo[j] PROVE i = j
        BY DEF NoRepeats
      <4>1. CASE i \in {1, 2} \/ j \in {1, 2}
        BY <1>2, <3>1, <4>1
      <4>2. CASE i \notin {1, 2} /\ j \notin {1, 2}
        <5>1. i - 2 = j - 2
          BY <1>2, <3>1, <4>2 DEF NoRepeats
        <5> QED
          BY <3>1, <5>1
      <4> QED
        BY <4>1, <4>2
    <3>3. \A i \in DOMAIN todo : todo[i] # "rotate" /\ (todo[i] = "issue" => kind \in {"signup", "login", "refresh", "change"})
      <4> TAKE i \in DOMAIN todo
      <4>1. CASE i \in {1, 2}
        BY <3>1, <4>1
      <4>2. CASE i \notin {1, 2}
        BY <1>2, <1>4, <2>2, <3>1, <4>2
      <4> QED
        BY <4>1, <4>2
    <3> QED
      BY <3>2, <3>3 DEF Range
  <2>3. CASE todo = Logout
    <3>1. NoRepeats(Logout) /\ "issue" \notin Range(Logout)
      BY DEF NoRepeats, Logout, Range
    <3> QED
      BY <2>3, <3>1
  <2> QED
    BY <1>1, <2>1, <2>2, <2>3
<1>8. \/ Fresh(c)
      \/ \E b \in Browsers : FreshRefresh(c, b) \/ Replay(c, b)
  <2>1. CASE kind # "refresh"
    <3>1. "rotate" \notin Range(todo)
      BY <1>7, <2>1, RefreshFacts
    <3>2. "issue" \in Range(todo) => call'[c].family = requests + 1
      BY <1>1, <1>7, <2>1
    <3> QED
      BY <1>1, <1>6, <2>1, <3>1, <3>2 DEF Fresh
  <2>2. CASE kind = "refresh"
    <3>1. PICK b \in Browsers :
            /\ stored[b] # Nothing /\ call'[c].by = b /\ call'[c].ref = stored[b]
            /\ call'[c].family = token[stored[b]].family
            /\ token[stored[b]].status = IF todo = Logout THEN "stale" ELSE "active"
            /\ alarmed' = (alarmed \/ todo = Logout)
      BY <1>1, <2>2
    <3>2. todo = RefreshToken \/ todo = Logout
      BY <1>1, <1>4, <1>5, <2>2
    <3>3. CASE todo = Logout
      BY <1>6, <3>1, <3>3, RefreshFacts DEF Replay
    <3>4. CASE todo = RefreshToken
      <4>1. alarmed' = alarmed
        BY <1>5, <3>1, <3>4 DEF Typed, PastTyped
      <4> QED
        BY <1>1, <1>5, <1>6, <2>2, <3>1, <3>4, <4>1, RefreshFacts DEF FreshRefresh
    <3> QED
      BY <3>2, <3>3, <3>4
  <2> QED
    BY <2>1, <2>2
<1>9. \A d \in Calls \ {c} : Still(d)' = Still(d) /\ SameCall(d) /\ call'[d] = call[d]
  BY <1>1 DEF OthersStay, Still, SameCall
<1>10. Still(c) = {} /\ call[c].kind = "none"
  BY <1>1 DEF NoCall, Still, Range
<1>11. call'[c].family <= requests + 1 /\ call'[c].family \in Nat
  <2>1. CASE kind = "refresh"
    <3>1. PICK b \in Browsers : /\ stored[b] # Nothing /\ call'[c].family = token[stored[b]].family
                                /\ token[stored[b]].status # "none"
      BY <1>1, <2>1
    <3>2. stored[b] \in Serials /\ token[stored[b]].family \in Serials
      BY <3>1 DEF Typed, WebTyped, TablesTyped, Tokens
    <3>3. token[stored[b]].family <= requests
      BY <3>1, <3>2 DEF TokenInv
    <3> QED
      BY <1>3, <3>1, <3>2, <3>3 DEF Serials
  <2>2. CASE kind # "refresh"
    BY <1>1, <1>3, <2>2
  <2> QED
    BY <2>1, <2>2
<1>12. CallInv'
  <2>1. \A d \in Calls \ {c} : Still(d) # {} => call[d].serial \in 1..requests /\ call[d].family <= requests
    BY DEF CallInv
  <2>2. \A d \in Calls \ {c} : Still(d)' # {} =>
          call'[d].serial \in 1..requests /\ call'[d].family <= requests + 1 /\ call'[d].serial # requests + 1
    <3> TAKE d \in Calls \ {c}
    <3>1. call[d].family \in Nat
      BY <1>3 DEF CallsTyped, Records, Serials
    <3> QED
      BY <1>3, <1>9, <2>1, <3>1
  <2>3. /\ "rotate" \in Range(todo) => kind = "refresh" /\ todo = RefreshToken
        /\ kind = "refresh" => Range(todo) \subseteq {"rotate", "recheck", "issue", "answer"} \/ "answer" \notin Range(todo)
    BY <1>1, <1>4, <1>5, <1>7, RefreshFacts
  <2>4. /\ NoRepeats(call'[c].todo) /\ call'[c].serial \in 1..requests' /\ call'[c].family <= requests'
        /\ "rotate" \in Still(c)' => call'[c].kind = "refresh" /\ call'[c].todo = RefreshToken
        /\ call'[c].kind = "refresh" /\ "answer" \in Still(c)' =>
             Still(c)' \subseteq {"rotate", "recheck", "issue", "answer"}
    BY <1>1, <1>3, <1>6, <1>7, <1>11, <2>3 DEF todo
  <2>5. ASSUME NEW d \in Calls, d # c
        PROVE  /\ NoRepeats(call'[d].todo)
               /\ Still(d)' # {} => call'[d].serial \in 1..requests' /\ call'[d].family <= requests'
               /\ "rotate" \in Still(d)' => call'[d].kind = "refresh" /\ call'[d].todo = RefreshToken
               /\ call'[d].kind = "refresh" /\ "answer" \in Still(d)' =>
                    Still(d)' \subseteq {"rotate", "recheck", "issue", "answer"}
    <3>1. call'[d] = call[d] /\ Still(d)' = Still(d)
      BY <1>9, <2>5
    <3>2. Still(d)' # {} => call'[d].serial \in 1..requests' /\ call'[d].family <= requests'
      BY <1>1, <1>3, <2>2, <2>5
    <3> QED
      BY <3>1, <3>2 DEF CallInv
  <2>6. \A d, e \in Calls : d # e /\ Still(d)' # {} /\ Still(e)' # {} => call'[d].serial # call'[e].serial
    <3> TAKE d, e \in Calls
    <3>1. CASE d # c /\ e # c
      BY <1>9, <3>1 DEF CallInv, SameCall
    <3>2. CASE d = c \/ e = c
      BY <1>1, <2>2, <3>2
    <3> QED
      BY <3>1, <3>2
  <2> QED
    BY <2>4, <2>5, <2>6 DEF CallInv
<1> QED
  BY <1>1, <1>3, <1>8, <1>9, <1>10, <1>12

-----------------------------------------------------------------------------
(* Tokens *)

\* Requests that run only get shorter.
Onward == /\ requests' = requests
          /\ \A d \in Calls : Still(d)' \subseteq Still(d) /\ (Still(d)' # {} => SameCall(d))

LEMMA MovesOnward ==
  ASSUME Typed, CallInv, NEW c \in Calls, Moves(c) PROVE Onward
<1>1. /\ \A d \in Calls \ {c} : Still(d)' = Still(d) /\ SameCall(d)
      /\ Ends(c) => Still(c)' = {}
      /\ ~Ends(c) => Still(c)' = Still(c) \ {Head(call[c].todo)} /\ SameCall(c)
  BY MovesView
<1>2. ASSUME NEW d \in Calls PROVE Still(d)' \subseteq Still(d) /\ (Still(d)' # {} => SameCall(d))
  BY <1>1
<1>3. requests' = requests
  BY DEF Moves
<1> QED
  BY <1>2, <1>3 DEF Onward

\* After the last statement nothing is left.
LEMMA LastStatement ==
  ASSUME Typed, NEW c \in Calls, call[c].todo # <<>>, Tail(call[c].todo) = <<>>
  PROVE  Still(c) \subseteq {Head(call[c].todo)}
<1>1. call[c].todo \in Seq(Steps)
  BY DEF Typed, CallsTyped, Records
<1>2. Still(c) \subseteq {Head(call[c].todo)} \cup Range(Tail(call[c].todo))
  BY <1>1, TailFacts DEF Still
<1> QED
  BY <1>2 DEF Range

\* A request at its "issue" has rotated.
LEMMA IssueAfterRotate ==
  ASSUME Typed, CallInv, NEW c \in Calls, Issues(c)
  PROVE  /\ "issue" \in Still(c) /\ "rotate" \notin Still(c) /\ "issue" \notin Still(c)'
         /\ call[c].serial \in 1..requests /\ call[c].serial \in Serials /\ call[c].family <= requests
<1>1. Moves(c) /\ Head(call[c].todo) = "issue"
  BY DEF Issues
<1>2. /\ "issue" \in Still(c)
      /\ Ends(c) => Still(c)' = {}
      /\ ~Ends(c) => Still(c)' = Still(c) \ {"issue"}
  BY <1>1, MovesView
<1>3. "rotate" \notin Still(c)
  BY <1>1, RefreshFacts DEF CallInv
<1>4. call[c].serial \in Serials
  BY DEF Typed, CallsTyped, Records
<1> QED
  BY <1>2, <1>3, <1>4 DEF CallInv

LEMMA FewerTokens ==
  ASSUME TokenInv, Onward,
         \A t \in Serials : token'[t].status # "none" =>
             token[t].status # "none" /\ token'[t].family = token[t].family,
         Typed
  PROVE  TokenInv'
<1>1. \A t \in Serials : token'[t].status # "none" => t <= requests' /\ token'[t].family <= requests'
  BY DEF TokenInv, Onward
<1>2. \A d \in Calls : call[d].serial \in Serials /\ call[d].ref \in Serials
  BY DEF Typed, CallsTyped, Records
<1>3. \A d \in Calls : "issue" \in Still(d)' =>
        "issue" \in Still(d) /\ call'[d].serial = call[d].serial
  BY DEF Onward, SameCall
<1>4. \A d \in Calls : "issue" \in Still(d)' => token'[call'[d].serial].status = "none"
  BY <1>2, <1>3 DEF TokenInv
<1>5. \A d \in Calls : "rotate" \in Still(d)' =>
        /\ "rotate" \in Still(d) /\ call'[d].ref = call[d].ref /\ call'[d].family = call[d].family
  BY DEF Onward, SameCall
<1>6. ASSUME NEW d \in Calls, "rotate" \in Still(d)'
      PROVE  /\ call'[d].ref <= requests'
             /\ token'[call'[d].ref].status # "none" => token'[call'[d].ref].family = call'[d].family
             /\ \A e \in Calls : "issue" \in Still(e)' => call'[d].ref # call'[e].serial
  BY <1>2, <1>3, <1>5, <1>6 DEF TokenInv, Onward
<1> QED
  BY <1>1, <1>4, <1>6 DEF TokenInv

LEMMA TokensNext ==
  ASSUME Typed, Typed', CallInv, TokenInv, StepKinds
  PROVE  CallInv' /\ TokenInv'
<1>1. /\ token \in [Serials -> Tokens] /\ requests \in Nat /\ requests' \in Serials
      /\ \A d \in Calls : call[d].serial \in Serials /\ call[d].ref \in Serials
  BY ConstantsOK DEF Typed, TablesTyped, CallsTyped, Records, Serials
<1>2. ASSUME NEW c \in Calls, Begins(c) PROVE CallInv' /\ TokenInv'
  <2>1. /\ CallInv' /\ call'[c].serial = requests + 1 /\ requests' = requests + 1
        /\ \A d \in Calls \ {c} : Still(d)' = Still(d) /\ SameCall(d)
        /\ \/ Fresh(c)
           \/ \E b \in Browsers : FreshRefresh(c, b) \/ Replay(c, b)
    BY <1>2, BeginsView
  <2>2. token' = token
    BY <1>2 DEF Begins
  <2>3. \A t \in Serials : token[t].status # "none" => t <= requests /\ token[t].family <= requests
    BY DEF TokenInv
  <2>4. \A t \in Serials : token'[t].status # "none" => t <= requests' /\ token'[t].family <= requests'
    <3> TAKE t \in Serials
    <3>1. t \in Nat /\ token[t].family \in Nat
      BY <1>1 DEF Serials, Tokens
    <3> QED
      BY <1>1, <2>1, <2>2, <2>3, <3>1
  <2>5. token[requests + 1].status = "none"
    BY <1>1, <2>1, <2>3
  <2>6. \A d \in Calls : "issue" \in Still(d)' => token'[call'[d].serial].status = "none"
    <3> TAKE d \in Calls
    <3>1. CASE d = c
      BY <2>1, <2>2, <2>5, <3>1
    <3>2. CASE d # c
      BY <2>1, <2>2, <3>2 DEF TokenInv, SameCall
    <3> QED
      BY <3>1, <3>2
  <2>7. ASSUME NEW d \in Calls, "rotate" \in Still(d)'
        PROVE  /\ call'[d].ref <= requests /\ call'[d].ref \in Serials
               /\ token'[call'[d].ref].status # "none" => token'[call'[d].ref].family = call'[d].family
               /\ \A e \in Calls \ {c} : "issue" \in Still(e) => call'[d].ref # call[e].serial
    <3>1. CASE d = c
      <4>1. PICK b \in Browsers : FreshRefresh(c, b)
        BY <2>1, <2>7, <3>1 DEF Fresh, Replay
      <4>2. stored[b] \in Serials
        BY <4>1 DEF Typed, WebTyped, FreshRefresh
      <4>3. token[stored[b]].status # "none" /\ stored[b] <= requests
        BY <2>3, <4>1, <4>2 DEF FreshRefresh
      <4> QED
        BY <2>2, <3>1, <4>1, <4>2, <4>3 DEF FreshRefresh, TokenInv
    <3>2. CASE d # c
      BY <1>1, <2>1, <2>2, <2>7, <3>2 DEF TokenInv, SameCall
    <3> QED
      BY <3>1, <3>2
  <2>8. ASSUME NEW d \in Calls, "rotate" \in Still(d)'
        PROVE  /\ call'[d].ref <= requests'
               /\ \A e \in Calls : "issue" \in Still(e)' => call'[d].ref # call'[e].serial
    <3>1. call'[d].ref <= requests /\ call'[d].ref \in Nat
      BY <2>7, <2>8 DEF Serials
    <3>2. ASSUME NEW e \in Calls, "issue" \in Still(e)' PROVE call'[d].ref # call'[e].serial
      <4>1. CASE e = c
        BY <1>1, <2>1, <3>1, <4>1
      <4>2. CASE e # c
        BY <2>1, <2>7, <2>8, <3>2, <4>2 DEF SameCall
      <4> QED
        BY <4>1, <4>2
    <3> QED
      BY <1>1, <2>1, <3>1, <3>2
  <2> QED
    BY <2>1, <2>4, <2>6, <2>7, <2>8 DEF TokenInv
<1>3. ASSUME NEW c \in Calls, Runs(c) PROVE CallInv' /\ TokenInv'
  <2>1. CallInv' /\ Onward
    BY <1>3, MovesView, MovesOnward DEF Runs
  <2>2. \A t \in Serials : token'[t].status # "none" =>
          token[t].status # "none" /\ token'[t].family = token[t].family
    BY <1>3 DEF Runs, NoToken
  <2> QED
    BY <2>1, <2>2, FewerTokens
<1>4. ASSUME NEW c \in Calls, Rotates(c) PROVE CallInv' /\ TokenInv'
  <2>1. CallInv' /\ Onward
    BY <1>4, MovesView, MovesOnward DEF Rotates
  <2>2. \A t \in Serials : token'[t].status # "none" =>
          token[t].status # "none" /\ token'[t].family = token[t].family
    BY <1>1, <1>4 DEF Rotates, Tokens
  <2> QED
    BY <2>1, <2>2, FewerTokens
<1>5. ASSUME NEW c \in Calls, Issues(c) PROVE CallInv' /\ TokenInv'
  <2>1. CallInv' /\ Onward
    BY <1>5, MovesView, MovesOnward DEF Issues
  <2>2. /\ "issue" \in Still(c) /\ "rotate" \notin Still(c) /\ "issue" \notin Still(c)'
        /\ call[c].serial \in 1..requests /\ call[c].serial \in Serials /\ call[c].family <= requests
    BY <1>5, IssueAfterRotate
  <2>3. token' = [token EXCEPT ![call[c].serial] =
                    [status |-> "active", family |-> call[c].family, basis |-> call[c].basis]]
    BY <1>5 DEF Issues
  <2>4. /\ token'[call[c].serial].family = call[c].family
        /\ \A t \in Serials \ {call[c].serial} : token'[t] = token[t]
    BY <1>1, <2>2, <2>3
  <2>5. \A t \in Serials : token'[t].status # "none" => t <= requests' /\ token'[t].family <= requests'
    BY <2>1, <2>2, <2>4 DEF Onward, TokenInv
  <2>6. ASSUME NEW d \in Calls, "issue" \in Still(d)' PROVE token'[call'[d].serial].status = "none"
    <3>1. d # c /\ "issue" \in Still(d) /\ call'[d].serial = call[d].serial
      BY <2>1, <2>2, <2>6 DEF Onward, SameCall
    <3>2. call[d].serial # call[c].serial
      BY <2>2, <3>1 DEF CallInv
    <3> QED
      BY <1>1, <2>4, <3>1, <3>2 DEF TokenInv
  <2>7. ASSUME NEW d \in Calls, "rotate" \in Still(d)'
        PROVE  /\ call'[d].ref <= requests'
               /\ token'[call'[d].ref].status # "none" => token'[call'[d].ref].family = call'[d].family
               /\ \A e \in Calls : "issue" \in Still(e)' => call'[d].ref # call'[e].serial
    <3>1. /\ "rotate" \in Still(d) /\ call'[d].ref = call[d].ref /\ call'[d].family = call[d].family
          /\ requests' = requests
      BY <2>1, <2>7 DEF Onward, SameCall
    <3>2. call[d].ref # call[c].serial
      BY <2>2, <3>1 DEF TokenInv
    <3>3. token'[call[d].ref] = token[call[d].ref]
      BY <1>1, <2>4, <3>2
    <3>4. \A e \in Calls : "issue" \in Still(e)' => "issue" \in Still(e) /\ call'[e].serial = call[e].serial
      BY <2>1 DEF Onward, SameCall
    <3> QED
      BY <3>1, <3>3, <3>4 DEF TokenInv
  <2> QED
    BY <2>1, <2>5, <2>6, <2>7 DEF TokenInv
<1>6. ASSUME NEW c \in Calls, Answers(c) PROVE CallInv' /\ TokenInv'
  <2>1. CallInv' /\ Onward
    BY <1>6, MovesView, MovesOnward DEF Answers
  <2>2. token' = token
    BY <1>6 DEF Answers
  <2> QED
    BY <2>1, <2>2, FewerTokens
<1>7. ASSUME UNCHANGED <<call, requests>>,
             \A t \in Serials : token'[t].status # "none" =>
                token[t].status # "none" /\ token'[t].family = token[t].family
      PROVE  CallInv' /\ TokenInv'
  <2>1. CallInv' /\ Onward
    BY <1>7 DEF CallInv, Onward, Still, SameCall
  <2> QED
    BY <1>7, <2>1, FewerTokens
<1>8. ASSUME NEW t \in Serials, GraceEnds(t) PROVE CallInv' /\ TokenInv'
  <2>1. \A u \in Serials : token'[u].status # "none" =>
          token[u].status # "none" /\ token'[u].family = token[u].family
    BY <1>1, <1>8 DEF GraceEnds, Tokens
  <2> QED
    BY <1>7, <1>8, <2>1 DEF GraceEnds
<1>9. ASSUME Quiet PROVE CallInv' /\ TokenInv'
  BY <1>7, <1>9 DEF Quiet
<1> QED
  BY <1>2, <1>3, <1>4, <1>5, <1>6, <1>8, <1>9 DEF StepKinds

-----------------------------------------------------------------------------
(* Families *)

\* A request that has rotated, or had nothing to rotate, and whose token is yet to come: no
\* good token has its family, nor has another such request.
Holds(c) == "issue" \in Still(c) /\ "rotate" \notin Still(c)
HolderInv ==
    /\ \A c \in Calls, t \in Active : Holds(c) => token[t].family # call[c].family
    /\ \A c, d \in Calls : c # d /\ Holds(c) /\ Holds(d) => call[c].family # call[d].family
FamilyInv == FamiliesDoNotFork /\ HolderInv

\* Nothing new is good or about to be.
LEMMA FewerHolders ==
  ASSUME FamilyInv,
         \A d \in Calls : Holds(d)' => Holds(d) /\ call'[d].family = call[d].family,
         \A t \in Active' : t \in Active /\ token'[t].family = token[t].family
  PROVE  FamilyInv'
BY DEF FamilyInv, HolderInv, FamiliesDoNotFork

\* A request becomes such a holder only by a rotation.
LEMMA HoldersStay ==
  ASSUME Typed, CallInv, NEW c \in Calls, Moves(c), Head(call[c].todo) = "rotate" => Ends(c)
  PROVE  \A d \in Calls : Holds(d)' => Holds(d) /\ call'[d].family = call[d].family
<1>1. /\ \A d \in Calls \ {c} : Still(d)' = Still(d) /\ SameCall(d)
      /\ Ends(c) => Still(c)' = {}
      /\ ~Ends(c) => Still(c)' = Still(c) \ {Head(call[c].todo)} /\ SameCall(c)
  BY MovesView
<1>2. ASSUME NEW d \in Calls, Holds(d)' PROVE Holds(d) /\ call'[d].family = call[d].family
  <2>1. "issue" \in Still(d)' /\ "rotate" \notin Still(d)'
    BY <1>2 DEF Holds
  <2> QED
    BY <1>1, <2>1 DEF Holds, SameCall
<1> QED
  BY <1>2

LEMMA FamiliesNext ==
  ASSUME Typed, CallInv, TokenInv, FamilyInv, StepKinds
  PROVE  FamilyInv'
<1>1. /\ token \in [Serials -> Tokens] /\ requests \in Nat
      /\ \A d \in Calls : call[d].serial \in Serials /\ call[d].ref \in Serials
  BY ConstantsOK DEF Typed, TablesTyped, CallsTyped, Records, Serials
<1>2. ASSUME NEW c \in Calls, Begins(c) PROVE FamilyInv'
  <2>1. /\ \A d \in Calls \ {c} : Still(d)' = Still(d) /\ SameCall(d)
        /\ \/ Fresh(c)
           \/ \E b \in Browsers : FreshRefresh(c, b) \/ Replay(c, b)
    BY <1>2, BeginsView
  <2>2. Active' = Active /\ token' = token
    BY <1>2 DEF Begins, Active
  <2>3. Holds(c)' => call'[c].family = requests + 1
    BY <2>1 DEF Holds, Fresh, FreshRefresh, Replay
  <2>4. \A d \in Calls \ {c} : Holds(d)' => Holds(d) /\ call'[d].family = call[d].family
    BY <2>1 DEF Holds, SameCall
  <2>5. \A t \in Active : token[t].family # requests + 1
    <3> TAKE t \in Active
    <3>1. token[t].family \in Nat /\ token[t].family <= requests
      BY <1>1 DEF Active, TokenInv, Tokens, Serials
    <3> QED
      BY <1>1, <3>1
  <2>6. \A d \in Calls : Holds(d) => call[d].family # requests + 1
    <3> TAKE d \in Calls
    <3>1. call[d].family \in Nat /\ (Still(d) # {} => call[d].family <= requests)
      BY DEF CallInv, Typed, CallsTyped, Records, Serials
    <3> QED
      BY <1>1, <3>1 DEF Holds
  <2>7. HolderInv'
    <3>1. \A d \in Calls, t \in Active : Holds(d)' => token[t].family # call'[d].family
      BY <2>3, <2>4, <2>5 DEF FamilyInv, HolderInv
    <3>2. \A d, e \in Calls : d # e /\ Holds(d)' /\ Holds(e)' => call'[d].family # call'[e].family
      BY <2>3, <2>4, <2>6 DEF FamilyInv, HolderInv
    <3> QED
      BY <2>2, <3>1, <3>2 DEF HolderInv
  <2> QED
    BY <2>2, <2>7 DEF FamilyInv, FamiliesDoNotFork
<1>3. ASSUME NEW c \in Calls, Runs(c) PROVE FamilyInv'
  <2>1. \A d \in Calls : Holds(d)' => Holds(d) /\ call'[d].family = call[d].family
    BY <1>3, HoldersStay DEF Runs
  <2>2. \A t \in Active' : t \in Active /\ token'[t].family = token[t].family
    BY <1>3 DEF Runs, Active, NoToken
  <2> QED
    BY <2>1, <2>2, FewerHolders
<1>4. ASSUME NEW c \in Calls, Rotates(c) PROVE FamilyInv'
  <2> DEFINE r == call[c].ref
  <2>1. /\ \A d \in Calls \ {c} : Still(d)' = Still(d) /\ SameCall(d)
        /\ "rotate" \in Still(c)
        /\ Ends(c) => Still(c)' = {}
        /\ ~Ends(c) => SameCall(c)
    BY <1>4, MovesView DEF Rotates
  <2>2. r \in Active /\ r \in Serials /\ token[r].family = call[c].family
    BY <1>1, <1>4, <2>1 DEF Rotates, Active, TokenInv
  <2>3. \A t \in Active' : t \in Active /\ t # r /\ token'[t].family = token[t].family
    <3>1. token' = [token EXCEPT ![r].status = "revoked"]
      BY <1>4 DEF Rotates
    <3> QED
      BY <1>1, <2>2, <3>1 DEF Active, Tokens
  <2>4. Holds(c)' => call'[c].family = call[c].family
    BY <2>1 DEF Holds, SameCall
  <2>5. \A d \in Calls \ {c} : Holds(d)' => Holds(d) /\ call'[d].family = call[d].family
    BY <2>1 DEF Holds, SameCall
  <2>6. \A t \in Active' : token'[t].family # call[c].family
    BY <2>2, <2>3 DEF FamilyInv, FamiliesDoNotFork
  <2>7. \A d \in Calls : Holds(d) => call[d].family # call[c].family
    BY <2>2 DEF FamilyInv, HolderInv
  <2> HIDE DEF r
  <2>8. FamiliesDoNotFork'
    BY <2>3 DEF FamilyInv, FamiliesDoNotFork
  <2>9. \A d \in Calls, t \in Active' : Holds(d)' => token'[t].family # call'[d].family
    BY <2>3, <2>4, <2>5, <2>6 DEF FamilyInv, HolderInv
  <2>10. \A d, e \in Calls : d # e /\ Holds(d)' /\ Holds(e)' => call'[d].family # call'[e].family
    BY <2>4, <2>5, <2>7 DEF FamilyInv, HolderInv
  <2> QED
    BY <2>8, <2>9, <2>10 DEF FamilyInv, HolderInv
<1>5. ASSUME NEW c \in Calls, Issues(c) PROVE FamilyInv'
  <2> DEFINE n == call[c].serial
  <2>1. /\ "issue" \in Still(c) /\ "rotate" \notin Still(c) /\ "issue" \notin Still(c)' /\ n \in Serials
    BY <1>5, IssueAfterRotate
  <2>2. \A d \in Calls : Holds(d)' => Holds(d) /\ call'[d].family = call[d].family
    BY <1>5, HoldersStay DEF Issues
  <2>3. Holds(c) /\ ~Holds(c)'
    BY <2>1 DEF Holds
  <2>4. /\ token'[n].family = call[c].family
        /\ \A t \in Serials \ {n} : token'[t] = token[t]
    BY <1>1, <1>5, <2>1 DEF Issues
  <2>5. \A t \in Active' : t # n => t \in Active /\ token'[t].family = token[t].family
    BY <2>4 DEF Active
  <2>6. \A t \in Active : token[t].family # call[c].family
    BY <2>3 DEF FamilyInv, HolderInv
  <2>7. \A d \in Calls \ {c} : Holds(d) => call[d].family # call[c].family
    BY <2>3 DEF FamilyInv, HolderInv
  <2> HIDE DEF n
  <2>8. FamiliesDoNotFork'
    BY <2>4, <2>5, <2>6 DEF FamilyInv, FamiliesDoNotFork
  <2>9. \A d \in Calls, t \in Active' : Holds(d)' => token'[t].family # call'[d].family
    BY <2>2, <2>3, <2>4, <2>5, <2>7 DEF FamilyInv, HolderInv
  <2>10. \A d, e \in Calls : d # e /\ Holds(d)' /\ Holds(e)' => call'[d].family # call'[e].family
    BY <2>2 DEF FamilyInv, HolderInv
  <2> QED
    BY <2>8, <2>9, <2>10 DEF FamilyInv, HolderInv
<1>6. ASSUME NEW c \in Calls, Answers(c) PROVE FamilyInv'
  <2>1. \A d \in Calls : Holds(d)' => Holds(d) /\ call'[d].family = call[d].family
    BY <1>6, HoldersStay DEF Answers
  <2>2. \A t \in Active' : t \in Active /\ token'[t].family = token[t].family
    BY <1>6 DEF Answers, Active
  <2> QED
    BY <2>1, <2>2, FewerHolders
<1>7. ASSUME NEW t \in Serials, GraceEnds(t) PROVE FamilyInv'
  <2>1. \A d \in Calls : Holds(d)' => Holds(d) /\ call'[d].family = call[d].family
    BY <1>7 DEF GraceEnds, Holds, Still
  <2>2. \A u \in Active' : u \in Active /\ token'[u].family = token[u].family
    BY <1>1, <1>7 DEF GraceEnds, Active, Tokens
  <2> QED
    BY <2>1, <2>2, FewerHolders
<1>8. ASSUME Quiet PROVE FamilyInv'
  BY <1>8 DEF Quiet, FamilyInv, HolderInv, FamiliesDoNotFork, Active, Holds, Still
<1> QED
  BY <1>2, <1>3, <1>4, <1>5, <1>6, <1>7, <1>8 DEF StepKinds

\* At the start no request is under way, and only token 0 is good.
LEMMA InitTokens == Init => CallInv /\ TokenInv /\ FamilyInv
<1> SUFFICES ASSUME Init PROVE CallInv /\ TokenInv /\ FamilyInv
  OBVIOUS
<1>1. \A c \in Calls : call[c] = NoCall /\ Still(c) = {} /\ NoRepeats(call[c].todo)
  BY DEF Init, NoCall, Still, Range, NoRepeats
<1>2. \A t \in Serials : token[t].status # "none" => t = 0 /\ token[t].family = 0
  BY DEF Init, NoToken
<1>3. requests = 0
  BY DEF Init
<1> QED
  BY <1>1, <1>2, <1>3
     DEF CallInv, TokenInv, FamilyInv, FamiliesDoNotFork, HolderInv, Holds, Active, NoCall

TokensInv == Typed /\ UserInv /\ CallInv /\ TokenInv /\ FamilyInv
LEMMA TokensInvariant == Spec => []TokensInv
<1>1. Init => TokensInv
  BY InitTyped, InitTokens DEF TokensInv
<1>2. TokensInv /\ [Next]_vars => TokensInv'
  <2> SUFFICES ASSUME TokensInv, [Next]_vars PROVE TokensInv'
    OBVIOUS
  <2>1. Typed' /\ UserInv' /\ StepKinds
    BY NextTyped DEF TokensInv
  <2>2. CallInv' /\ TokenInv'
    BY <2>1, TokensNext DEF TokensInv
  <2>3. FamilyInv'
    BY <2>1, FamiliesNext DEF TokensInv
  <2> QED
    BY <2>1, <2>2, <2>3 DEF TokensInv
<1> QED
  BY <1>1, <1>2, PTL DEF Spec

\* However many tabs refresh with one token, and wherever their requests stop, a login's
\* chain of tokens has at most one good one.
THEOREM FamiliesStayWhole == Spec => []FamiliesDoNotFork
<1>1. TokensInv => FamiliesDoNotFork
  BY DEF TokensInv, FamilyInv
<1> QED
  BY <1>1, TokensInvariant, PTL

-----------------------------------------------------------------------------
(* Alarms *)

Rotated(t) == token[t].status \in {"revoked", "stale"}

\* No two browsers keep one token, and what a request will answer with is nobody's yet: it is
\* good or still to come, in no browser and not being rotated.  A token is rotated for the
\* browser that keeps it.
StoredInv ==
    /\ \A b \in Browsers : stored[b] <= requests
    /\ \A a, b \in Browsers : a # b /\ stored[a] # Nothing => stored[a] # stored[b]
    /\ \A c \in Calls : "answer" \in Still(c) =>
         /\ ~Rotated(call[c].serial) /\ \A b \in Browsers : stored[b] # call[c].serial
         /\ \A d \in Calls : "rotate" \in Still(d) => call[d].ref # call[c].serial
    /\ \A c \in Calls : "rotate" \in Still(c) =>
         \A b \in Browsers : stored[b] = call[c].ref => call[c].by = b

LEMMA StoredStays ==
  ASSUME Typed, StoredInv, Onward, UNCHANGED stored, \A t \in Serials : Rotated(t)' => Rotated(t)
  PROVE  StoredInv'
<1>1. \A c \in Calls : "answer" \in Still(c)' => "answer" \in Still(c) /\ call'[c].serial = call[c].serial
  BY DEF Onward, SameCall
<1>2. \A c \in Calls : "rotate" \in Still(c)' =>
        "rotate" \in Still(c) /\ call'[c].ref = call[c].ref /\ call'[c].by = call[c].by
  BY DEF Onward, SameCall
<1>3. \A c \in Calls : call[c].serial \in Serials
  BY DEF Typed, CallsTyped, Records
<1>4. requests' = requests
  BY DEF Onward
<1>5. ASSUME NEW c \in Calls, "answer" \in Still(c)'
      PROVE  /\ ~Rotated(call[c].serial)' /\ \A b \in Browsers : stored'[b] # call'[c].serial
             /\ \A d \in Calls : "rotate" \in Still(d)' => call'[d].ref # call'[c].serial
  BY <1>1, <1>2, <1>3, <1>5 DEF StoredInv, Rotated
<1>6. \A c \in Calls : "rotate" \in Still(c)' =>
        \A b \in Browsers : stored'[b] = call'[c].ref => call'[c].by = b
  BY <1>2 DEF StoredInv
<1> QED
  BY <1>4, <1>5, <1>6 DEF StoredInv

LEMMA StoredNext ==
  ASSUME Typed, Typed', CallInv, TokenInv, StoredInv, StepKinds
  PROVE  StoredInv'
<1>1. /\ token \in [Serials -> Tokens] /\ requests \in Nat /\ requests' \in Serials
      /\ stored \in [Browsers -> Serials \cup {Nothing}]
      /\ \A d \in Calls : call[d].serial \in Serials /\ call[d].ref \in Serials
  BY ConstantsOK DEF Typed, TablesTyped, WebTyped, CallsTyped, Records, Serials
<1>2. ASSUME NEW c \in Calls, Begins(c) PROVE StoredInv'
  <2>1. /\ call'[c].serial = requests + 1 /\ requests' = requests + 1
        /\ \A d \in Calls \ {c} : Still(d)' = Still(d) /\ SameCall(d)
        /\ \/ Fresh(c)
           \/ \E b \in Browsers : FreshRefresh(c, b) \/ Replay(c, b)
    BY <1>2, BeginsView
  <2>2. token' = token /\ stored' = stored
    BY <1>2 DEF Begins
  <2>3. "rotate" \in Still(c)' =>
          \E b \in Browsers : stored[b] # Nothing /\ call'[c].by = b /\ call'[c].ref = stored[b]
    BY <2>1 DEF Fresh, FreshRefresh, Replay
  <2>4. \A b \in Browsers : stored[b] <= requests /\ (stored[b] \in Nat \/ stored[b] = Nothing)
    BY <1>1 DEF StoredInv, Serials
  <2>5. \A b \in Browsers : stored[b] # requests + 1 /\ stored[b] <= requests'
    BY <1>1, <2>1, <2>4 DEF Nothing
  <2>6. \A d \in Calls : "rotate" \in Still(d)' => call'[d].ref # requests + 1
    <3> TAKE d \in Calls
    <3>1. CASE d = c
      BY <2>3, <2>5, <3>1
    <3>2. CASE d # c
      <4>1. call[d].ref \in Nat /\ ("rotate" \in Still(d) => call[d].ref <= requests)
        BY <1>1 DEF TokenInv, Serials
      <4> QED
        BY <1>1, <2>1, <3>2, <4>1 DEF SameCall
    <3> QED
      BY <3>1, <3>2
  <2>7. ~Rotated(requests + 1)
    BY <1>1, <2>1 DEF TokenInv, Rotated
  <2>8. ASSUME NEW d \in Calls, "answer" \in Still(d)'
        PROVE  /\ ~Rotated(call[d].serial)' /\ \A b \in Browsers : stored'[b] # call'[d].serial
               /\ \A e \in Calls : "rotate" \in Still(e)' => call'[e].ref # call'[d].serial
    <3>1. CASE d = c
      BY <2>1, <2>2, <2>5, <2>6, <2>7, <3>1 DEF Rotated
    <3>2. CASE d # c
      <4>1. "answer" \in Still(d) /\ call'[d].serial = call[d].serial
        BY <2>1, <2>8, <3>2 DEF SameCall
      <4>2. ~Rotated(call[d].serial) /\ \A b \in Browsers : stored[b] # call[d].serial
        BY <4>1 DEF StoredInv
      <4>3. ASSUME NEW e \in Calls, "rotate" \in Still(e)' PROVE call'[e].ref # call[d].serial
        <5>1. CASE e = c
          BY <2>3, <4>2, <4>3, <5>1
        <5>2. CASE e # c
          BY <2>1, <4>1, <4>3, <5>2 DEF StoredInv, SameCall
        <5> QED
          BY <5>1, <5>2
      <4> QED
        BY <2>2, <4>1, <4>2, <4>3 DEF Rotated
    <3> QED
      BY <3>1, <3>2
  <2>9. ASSUME NEW d \in Calls, "rotate" \in Still(d)', NEW b \in Browsers, stored'[b] = call'[d].ref
        PROVE  call'[d].by = b
    <3>1. CASE d = c
      BY <2>2, <2>3, <2>9, <3>1 DEF StoredInv
    <3>2. CASE d # c
      BY <2>1, <2>2, <2>9, <3>2 DEF StoredInv, SameCall
    <3> QED
      BY <3>1, <3>2
  <2> QED
    BY <2>2, <2>5, <2>8, <2>9 DEF StoredInv
<1>3. ASSUME NEW c \in Calls, Runs(c) PROVE StoredInv'
  <2>1. Onward /\ stored' = stored
    BY <1>3, MovesOnward DEF Runs
  <2>2. \A t \in Serials : Rotated(t)' => Rotated(t)
    BY <1>3 DEF Runs, Rotated, NoToken
  <2> QED
    BY <2>1, <2>2, StoredStays
<1>4. ASSUME NEW c \in Calls, Rotates(c) PROVE StoredInv'
  <2> DEFINE r == call[c].ref
  <2>1. Onward /\ stored' = stored /\ "rotate" \in Still(c)
    BY <1>4, MovesOnward, MovesView DEF Rotates
  <2>2. \A t \in Serials : Rotated(t)' => Rotated(t) \/ t = r
    BY <1>1, <1>4 DEF Rotates, Rotated, Tokens
  <2>3. requests' = requests /\ \A d \in Calls : Still(d)' \subseteq Still(d) /\ (Still(d)' # {} => SameCall(d))
    BY <2>1 DEF Onward
  <2>4. ASSUME NEW d \in Calls, "answer" \in Still(d)'
        PROVE  /\ ~Rotated(call[d].serial)' /\ \A b \in Browsers : stored'[b] # call'[d].serial
               /\ \A e \in Calls : "rotate" \in Still(e)' => call'[e].ref # call'[d].serial
    <3>1. "answer" \in Still(d) /\ call'[d].serial = call[d].serial
      BY <2>3, <2>4 DEF SameCall
    <3>2. /\ ~Rotated(call[d].serial) /\ \A b \in Browsers : stored[b] # call[d].serial
          /\ \A e \in Calls : "rotate" \in Still(e) => call[e].ref # call[d].serial
      BY <3>1 DEF StoredInv
    <3>3. r # call[d].serial
      BY <2>1, <3>2
    <3>4. \A e \in Calls : "rotate" \in Still(e)' => "rotate" \in Still(e) /\ call'[e].ref = call[e].ref
      BY <2>3 DEF SameCall
    <3>5. ~Rotated(call[d].serial)'
      BY <1>1, <2>2, <3>1, <3>2, <3>3 DEF Rotated
    <3> QED
      BY <2>1, <3>1, <3>2, <3>4, <3>5
  <2>5. \A d \in Calls : "rotate" \in Still(d)' =>
          \A b \in Browsers : stored'[b] = call'[d].ref => call'[d].by = b
    BY <2>1, <2>3 DEF StoredInv, SameCall
  <2> QED
    BY <2>1, <2>3, <2>4, <2>5 DEF StoredInv
<1>5. ASSUME NEW c \in Calls, Issues(c) PROVE StoredInv'
  <2>1. Onward /\ stored' = stored
    BY <1>5, MovesOnward DEF Issues
  <2>2. \A t \in Serials : Rotated(t)' => Rotated(t)
    BY <1>1, <1>5 DEF Issues, Rotated
  <2> QED
    BY <2>1, <2>2, StoredStays
<1>6. ASSUME NEW c \in Calls, Answers(c) PROVE StoredInv'
  <2> DEFINE n == call[c].serial
  <2>1. /\ Onward /\ "answer" \in Still(c) /\ Still(c)' = {}
    BY <1>6, MovesOnward, MovesView DEF Answers
  <2>2. /\ token' = token
        /\ \A b \in Browsers : stored'[b] = IF b = call[c].by THEN n ELSE stored[b]
    BY <1>1, <1>6 DEF Answers
  <2>3. requests' = requests /\ \A d \in Calls : Still(d)' \subseteq Still(d) /\ (Still(d)' # {} => SameCall(d))
    BY <2>1 DEF Onward
  <2>4. /\ n <= requests /\ ~Rotated(n) /\ \A b \in Browsers : stored[b] # n
        /\ \A d \in Calls : "rotate" \in Still(d) => call[d].ref # n
        /\ \A d \in Calls \ {c} : "answer" \in Still(d) => call[d].serial # n
    BY <1>1, <2>1 DEF StoredInv, CallInv
  <2> HIDE DEF n
  <2>5. \A b \in Browsers : stored'[b] <= requests'
    BY <2>2, <2>3, <2>4 DEF StoredInv
  <2>6. \A a, b \in Browsers : a # b /\ stored'[a] # Nothing => stored'[a] # stored'[b]
    BY <2>2, <2>4 DEF StoredInv
  <2>7. ASSUME NEW d \in Calls, "answer" \in Still(d)'
        PROVE  /\ ~Rotated(call[d].serial)' /\ \A b \in Browsers : stored'[b] # call'[d].serial
               /\ \A e \in Calls : "rotate" \in Still(e)' => call'[e].ref # call'[d].serial
    <3>1. d # c /\ "answer" \in Still(d) /\ call'[d].serial = call[d].serial
      BY <2>1, <2>3, <2>7 DEF SameCall
    <3>2. /\ ~Rotated(call[d].serial) /\ \A b \in Browsers : stored[b] # call[d].serial
          /\ \A e \in Calls : "rotate" \in Still(e) => call[e].ref # call[d].serial
      BY <3>1 DEF StoredInv
    <3>3. \A e \in Calls : "rotate" \in Still(e)' => "rotate" \in Still(e) /\ call'[e].ref = call[e].ref
      BY <2>3 DEF SameCall
    <3> QED
      BY <2>2, <2>4, <3>1, <3>2, <3>3 DEF Rotated
  <2>8. ASSUME NEW d \in Calls, "rotate" \in Still(d)', NEW b \in Browsers, stored'[b] = call'[d].ref
        PROVE  call'[d].by = b
    <3>1. "rotate" \in Still(d) /\ call'[d].ref = call[d].ref /\ call'[d].by = call[d].by
      BY <2>3, <2>8 DEF SameCall
    <3>2. stored[b] = call[d].ref
      BY <2>2, <2>4, <2>8, <3>1
    <3> QED
      BY <3>1, <3>2 DEF StoredInv
  <2> QED
    BY <2>5, <2>6, <2>7, <2>8 DEF StoredInv
<1>7. ASSUME UNCHANGED <<call, requests, stored>>, \A t \in Serials : Rotated(t)' => Rotated(t)
      PROVE  StoredInv'
  <2>1. Onward
    BY <1>7 DEF Onward, Still, SameCall
  <2> QED
    BY <1>7, <2>1, StoredStays
<1>8. ASSUME NEW t \in Serials, GraceEnds(t) PROVE StoredInv'
  <2>1. \A u \in Serials : Rotated(u)' => Rotated(u)
    BY <1>1, <1>8 DEF GraceEnds, Rotated, Tokens
  <2> QED
    BY <1>7, <1>8, <2>1 DEF GraceEnds, webVars
<1>9. ASSUME Quiet PROVE StoredInv'
  <2>1. \A u \in Serials : Rotated(u)' => Rotated(u)
    BY <1>9 DEF Quiet, Rotated
  <2> QED
    BY <1>7, <1>9, <2>1 DEF Quiet
<1> QED
  BY <1>2, <1>3, <1>4, <1>5, <1>6, <1>8, <1>9 DEF StepKinds

\* c has rotated what b keeps, and b waits for its answer.
Succeeds(c, b) == /\ call[c].kind = "refresh" /\ call[c].ref = stored[b] /\ call[c].by = b
                  /\ "answer" \in Still(c) /\ "rotate" \notin Still(c)
\* As long as no answer to a rotation was lost, a browser keeps a rotated token only while
\* the answer that replaces it is under way, and so only within the grace period.
Awaited == \A b \in Browsers : stored[b] # Nothing /\ Rotated(stored[b]) =>
               token[stored[b]].status = "revoked" /\ \E c \in Calls : Succeeds(c, b)
AlarmInv == lost \/ (~alarmed /\ Awaited)

\* A refresh that has rotated goes on, unless its answer is lost.
LEMMA SuccessorGoesOn ==
  ASSUME Typed, CallInv, NEW c \in Calls, Moves(c), NEW b \in Browsers, Succeeds(c, b),
         UNCHANGED stored,
         Head(call[c].todo) # "answer",
         Ends(c) /\ Head(call[c].todo) \in {"rotate", "recheck", "issue"} => Tail(call[c].todo) = <<>>
  PROVE  Succeeds(c, b)'
<1>1. /\ Head(call[c].todo) \in Still(c)
      /\ ~Ends(c) => Still(c)' = Still(c) \ {Head(call[c].todo)} /\ SameCall(c)
  BY MovesView
<1>2. Head(call[c].todo) \in {"rotate", "recheck", "issue", "answer"}
  BY <1>1 DEF CallInv, Succeeds
<1>3. Tail(call[c].todo) # <<>>
  <2> SUFFICES ASSUME Tail(call[c].todo) = <<>> PROVE FALSE
    OBVIOUS
  <2>1. Still(c) \subseteq {Head(call[c].todo)}
    BY LastStatement DEF Moves
  <2> QED
    BY <2>1 DEF Succeeds
<1>4. ~Ends(c)
  BY <1>2, <1>3
<1> QED
  BY <1>1, <1>4 DEF Succeeds, SameCall

\* Others do not touch it.
LEMMA SuccessorStays ==
  ASSUME NEW d \in Calls, NEW b \in Browsers, Succeeds(d, b), SameCall(d), Still(d)' = Still(d),
         stored'[b] = stored[b]
  PROVE  Succeeds(d, b)'
BY DEF Succeeds, SameCall

LEMMA AlarmNext ==
  ASSUME Typed, CallInv, TokenInv, StoredInv, AlarmInv, StepKinds
  PROVE  AlarmInv'
<1>1. /\ token \in [Serials -> Tokens] /\ lost \in BOOLEAN /\ alarmed \in BOOLEAN
      /\ stored \in [Browsers -> Serials \cup {Nothing}]
      /\ \A d \in Calls : call[d].serial \in Serials /\ call[d].ref \in Serials
      /\ \A b \in Browsers : stored[b] # Nothing => stored[b] \in Serials
  BY DEF Typed, TablesTyped, WebTyped, PastTyped, CallsTyped, Records
<1>2. ASSUME NEW c \in Calls, Begins(c) PROVE AlarmInv'
  <2>1. /\ Still(c) = {}
        /\ \A d \in Calls \ {c} : Still(d)' = Still(d) /\ SameCall(d)
        /\ \/ Fresh(c)
           \/ \E b \in Browsers : FreshRefresh(c, b) \/ Replay(c, b)
    BY <1>2, BeginsView
  <2>2. token' = token /\ stored' = stored /\ lost' = lost
    BY <1>2 DEF Begins
  <2>3. ASSUME ~lost PROVE alarmed' = alarmed
    <3>1. ~alarmed /\ Awaited
      BY <2>3 DEF AlarmInv
    <3>2. ASSUME NEW b \in Browsers, Replay(c, b) PROVE FALSE
      <4>1. stored[b] # Nothing /\ token[stored[b]].status = "stale"
        BY <3>2 DEF Replay
      <4> QED
        BY <3>1, <4>1 DEF Awaited, Rotated
    <3> QED
      BY <2>1, <3>2 DEF Fresh, FreshRefresh
  <2>4. ASSUME Awaited PROVE Awaited'
    <3> SUFFICES ASSUME NEW b \in Browsers, stored'[b] # Nothing, Rotated(stored[b])'
                 PROVE  token'[stored'[b]].status = "revoked" /\ \E d \in Calls : Succeeds(d, b)'
      BY DEF Awaited
    <3>1. token[stored[b]].status = "revoked" /\ \E d \in Calls : Succeeds(d, b)
      BY <2>2, <2>4 DEF Awaited, Rotated
    <3>2. PICK d \in Calls : Succeeds(d, b)
      BY <3>1
    <3>3. d # c
      BY <2>1, <3>2 DEF Succeeds
    <3>4. Succeeds(d, b)'
      BY <2>1, <2>2, <3>2, <3>3, SuccessorStays
    <3> QED
      BY <2>2, <3>1, <3>4
  <2> QED
    BY <1>1, <2>2, <2>3, <2>4 DEF AlarmInv
<1>3. ASSUME NEW c \in Calls, Runs(c) PROVE AlarmInv'
  <2>1. Moves(c) /\ stored' = stored /\ alarmed' = alarmed /\ (lost => lost')
    BY <1>3 DEF Runs
  <2>2. \A d \in Calls \ {c} : Still(d)' = Still(d) /\ SameCall(d)
    BY <2>1, MovesView
  <2>3. ASSUME ~lost', Awaited PROVE Awaited'
    <3> SUFFICES ASSUME NEW b \in Browsers, stored'[b] # Nothing, Rotated(stored[b])'
                 PROVE  token'[stored'[b]].status = "revoked" /\ \E d \in Calls : Succeeds(d, b)'
      BY DEF Awaited
    <3>1. stored[b] \in Serials
      BY <1>1, <2>1
    <3>2. token' = token
      BY <1>3, <2>1, <3>1 DEF Runs, Rotated, NoToken
    <3>3. token[stored[b]].status = "revoked" /\ \E d \in Calls : Succeeds(d, b)
      BY <2>1, <2>3, <3>2 DEF Awaited, Rotated
    <3>4. PICK d \in Calls : Succeeds(d, b)
      BY <3>3
    <3>5. CASE d # c
      <4>1. Succeeds(d, b)'
        BY <2>1, <2>2, <3>4, <3>5, SuccessorStays
      <4> QED
        BY <2>1, <3>2, <3>3, <4>1
    <3>6. CASE d = c
      <4>1. Head(call[c].todo) # "answer"
        BY <1>3, <2>3, <3>4, <3>6 DEF Runs, Succeeds
      <4>2. Head(call[c].todo) # "rotate"
        BY <2>1, <3>4, <3>6, MovesView DEF Succeeds
      <4>3. Ends(c) /\ Head(call[c].todo) \in {"rotate", "recheck", "issue"} => Tail(call[c].todo) = <<>>
        BY <1>3, <2>3, <4>2 DEF Runs
      <4>4. Succeeds(c, b)'
        BY <2>1, <3>4, <3>6, <4>1, <4>3, SuccessorGoesOn
      <4> QED
        BY <2>1, <3>2, <3>3, <4>4
    <3> QED
      BY <3>5, <3>6
  <2> QED
    BY <1>1, <2>1, <2>3 DEF AlarmInv
<1>4. ASSUME NEW c \in Calls, Rotates(c) PROVE AlarmInv'
  <2> DEFINE r == call[c].ref
  <2>1. /\ Moves(c) /\ Head(call[c].todo) = "rotate" /\ (Ends(c) => Tail(call[c].todo) = <<>>)
        /\ token' = [token EXCEPT ![r].status = "revoked"]
        /\ stored' = stored /\ alarmed' = alarmed /\ lost' = lost
    BY <1>4 DEF Rotates
  <2>2. /\ \A d \in Calls \ {c} : Still(d)' = Still(d) /\ SameCall(d)
        /\ "rotate" \in Still(c)
        /\ ~Ends(c) => Still(c)' = Still(c) \ {"rotate"} /\ SameCall(c)
    BY <2>1, MovesView
  <2>3. call[c].kind = "refresh" /\ Still(c) = {"rotate", "recheck", "issue", "answer"}
    BY <2>2, RefreshFacts DEF CallInv, Still
  <2>4. ~Ends(c)
    <3>1. Tail(call[c].todo) = <<>> => Still(c) \subseteq {"rotate"}
      BY <2>1, LastStatement DEF Moves
    <3> QED
      BY <2>1, <2>3, <3>1
  <2>5. /\ r \in Serials /\ token'[r].status = "revoked"
        /\ \A t \in Serials \ {r} : token'[t] = token[t]
    BY <1>1, <2>1 DEF Tokens
  <2>6. ASSUME Awaited PROVE Awaited'
    <3> SUFFICES ASSUME NEW b \in Browsers, stored'[b] # Nothing, Rotated(stored[b])'
                 PROVE  token'[stored'[b]].status = "revoked" /\ \E d \in Calls : Succeeds(d, b)'
      BY DEF Awaited
    <3>1. stored[b] \in Serials
      BY <1>1, <2>1
    <3>2. CASE stored[b] = r
      <4>1. call[c].by = b
        BY <2>2, <3>2 DEF StoredInv
      <4>2. Succeeds(c, b)'
        BY <2>1, <2>2, <2>3, <2>4, <3>2, <4>1 DEF Succeeds, SameCall
      <4> QED
        BY <2>1, <2>5, <3>2, <4>2
    <3>3. CASE stored[b] # r
      <4>1. token'[stored[b]] = token[stored[b]]
        BY <2>5, <3>1, <3>3
      <4>2. token[stored[b]].status = "revoked" /\ \E d \in Calls : Succeeds(d, b)
        BY <2>1, <2>6, <4>1 DEF Awaited, Rotated
      <4>3. PICK d \in Calls : Succeeds(d, b)
        BY <4>2
      <4>4. d # c
        BY <2>2, <4>3 DEF Succeeds
      <4>5. Succeeds(d, b)'
        BY <2>1, <2>2, <4>3, <4>4, SuccessorStays
      <4> QED
        BY <2>1, <4>1, <4>2, <4>5
    <3> QED
      BY <3>2, <3>3
  <2> QED
    BY <2>1, <2>6 DEF AlarmInv
<1>5. ASSUME NEW c \in Calls, Issues(c) PROVE AlarmInv'
  <2>1. /\ Moves(c) /\ Head(call[c].todo) = "issue" /\ (Ends(c) => Tail(call[c].todo) = <<>>)
        /\ stored' = stored /\ alarmed' = alarmed /\ lost' = lost
    BY <1>5 DEF Issues
  <2>2. \A d \in Calls \ {c} : Still(d)' = Still(d) /\ SameCall(d)
    BY <2>1, MovesView
  <2>3. \A t \in Serials : Rotated(t)' => token'[t] = token[t]
    BY <1>1, <1>5 DEF Issues, Rotated
  <2>4. ASSUME Awaited PROVE Awaited'
    <3> SUFFICES ASSUME NEW b \in Browsers, stored'[b] # Nothing, Rotated(stored[b])'
                 PROVE  token'[stored'[b]].status = "revoked" /\ \E d \in Calls : Succeeds(d, b)'
      BY DEF Awaited
    <3>1. stored[b] \in Serials
      BY <1>1, <2>1
    <3>2. token'[stored[b]] = token[stored[b]]
      BY <2>1, <2>3, <3>1 DEF Rotated
    <3>3. token[stored[b]].status = "revoked" /\ \E d \in Calls : Succeeds(d, b)
      BY <2>1, <2>4, <3>2 DEF Awaited, Rotated
    <3>4. PICK d \in Calls : Succeeds(d, b)
      BY <3>3
    <3>5. CASE d # c
      <4>1. Succeeds(d, b)'
        BY <2>1, <2>2, <3>4, <3>5, SuccessorStays
      <4> QED
        BY <2>1, <3>2, <3>3, <4>1
    <3>6. CASE d = c
      <4>1. Succeeds(c, b)'
        BY <2>1, <3>4, <3>6, SuccessorGoesOn
      <4> QED
        BY <2>1, <3>2, <3>3, <4>1
    <3> QED
      BY <3>5, <3>6
  <2> QED
    BY <2>1, <2>4 DEF AlarmInv
<1>6. ASSUME NEW c \in Calls, Answers(c) PROVE AlarmInv'
  <2>1. /\ Moves(c) /\ Head(call[c].todo) = "answer" /\ token' = token
        /\ alarmed' = alarmed /\ lost' = lost
        /\ \A b \in Browsers : stored'[b] = IF b = call[c].by THEN call[c].serial ELSE stored[b]
    BY <1>1, <1>6 DEF Answers
  <2>2. /\ \A d \in Calls \ {c} : Still(d)' = Still(d) /\ SameCall(d)
        /\ "answer" \in Still(c)
    BY <2>1, MovesView
  <2>3. ~Rotated(call[c].serial)
    BY <2>2 DEF StoredInv
  <2>4. ASSUME Awaited PROVE Awaited'
    <3> SUFFICES ASSUME NEW b \in Browsers, stored'[b] # Nothing, Rotated(stored[b])'
                 PROVE  token'[stored'[b]].status = "revoked" /\ \E d \in Calls : Succeeds(d, b)'
      BY DEF Awaited
    <3>1. b # call[c].by /\ stored'[b] = stored[b]
      BY <2>1, <2>3 DEF Rotated
    <3>2. token[stored[b]].status = "revoked" /\ \E d \in Calls : Succeeds(d, b)
      BY <2>1, <2>4, <3>1 DEF Awaited, Rotated
    <3>3. PICK d \in Calls : Succeeds(d, b)
      BY <3>2
    <3>4. d # c
      BY <3>1, <3>3 DEF Succeeds
    <3>5. Succeeds(d, b)'
      BY <2>2, <3>1, <3>3, <3>4, SuccessorStays
    <3> QED
      BY <2>1, <3>1, <3>2, <3>5
  <2> QED
    BY <2>1, <2>4 DEF AlarmInv
<1>7. ASSUME NEW t \in Serials, GraceEnds(t) PROVE AlarmInv'
  <2>1. /\ token[t].status = "revoked" /\ \A c \in Calls : ~(call[c].kind = "refresh" /\ call[c].ref = t)
        /\ token' = [token EXCEPT ![t].status = "stale"]
        /\ call' = call /\ stored' = stored /\ alarmed' = alarmed /\ lost' = lost
    BY <1>7 DEF GraceEnds, webVars, pastVars
  <2>2. \A u \in Serials \ {t} : token'[u] = token[u]
    BY <1>1, <2>1
  <2>3. ASSUME Awaited PROVE Awaited'
    <3> SUFFICES ASSUME NEW b \in Browsers, stored'[b] # Nothing, Rotated(stored[b])'
                 PROVE  token'[stored'[b]].status = "revoked" /\ \E d \in Calls : Succeeds(d, b)'
      BY DEF Awaited
    <3>1. stored[b] \in Serials /\ stored[b] # Nothing
      BY <1>1, <2>1
    <3>2. stored[b] # t
      BY <2>1, <2>3, <3>1 DEF Awaited, Rotated, Succeeds
    <3>3. token'[stored[b]] = token[stored[b]]
      BY <2>2, <3>1, <3>2
    <3>4. token[stored[b]].status = "revoked" /\ \E d \in Calls : Succeeds(d, b)
      BY <2>1, <2>3, <3>1, <3>3 DEF Awaited, Rotated
    <3>5. \E d \in Calls : Succeeds(d, b)'
      BY <2>1, <3>4 DEF Succeeds, Still
    <3> QED
      BY <2>1, <3>3, <3>4, <3>5
  <2> QED
    BY <2>1, <2>3 DEF AlarmInv
<1>8. ASSUME Quiet PROVE AlarmInv'
  BY <1>8 DEF Quiet, AlarmInv, Awaited, Rotated, Succeeds, Still
<1> QED
  BY <1>2, <1>3, <1>4, <1>5, <1>6, <1>7, <1>8 DEF StepKinds

\* At the start one browser at most keeps token 0, which is good.
LEMMA InitAlarm == Init => StoredInv /\ AlarmInv
<1> SUFFICES ASSUME Init PROVE StoredInv /\ AlarmInv
  OBVIOUS
<1>1. \A c \in Calls : Still(c) = {}
  BY DEF Init, NoCall, Still, Range
<1>2. /\ \A b \in Browsers : stored[b] \in {0, Nothing}
      /\ \A a, b \in Browsers : a # b /\ stored[a] = 0 => stored[b] = Nothing
  BY DEF Init, Nothing
<1>3. \A t \in Serials : ~Rotated(t)
  BY DEF Init, Rotated, NoToken
<1>4. 0 \in Serials /\ requests = 0 /\ ~alarmed
  BY ConstantsOK DEF Init, Serials
<1>5. StoredInv
  BY <1>1, <1>2, <1>4 DEF StoredInv, Nothing
<1>6. AlarmInv
  BY <1>2, <1>3, <1>4 DEF AlarmInv, Awaited
<1> QED
  BY <1>5, <1>6

\* Reuse detection, which revokes every session of the user, goes off only after a browser
\* missed the answer to a rotation, however many tabs refresh, log out or change passwords.
THEOREM AlarmsAreReal == Spec => []AlarmOnlyAfterLoss
<1> DEFINE Inv == StoredInv /\ AlarmInv
<1>1. Init => Inv
  BY InitAlarm
<1>2. TokensInv /\ TokensInv' /\ Inv /\ [Next]_vars => Inv'
  <2> SUFFICES ASSUME TokensInv, TokensInv', Inv, [Next]_vars PROVE Inv'
    OBVIOUS
  <2>1. StepKinds
    BY NextTyped DEF TokensInv
  <2>2. StoredInv'
    BY <2>1, StoredNext DEF TokensInv
  <2>3. AlarmInv'
    BY <2>1, AlarmNext DEF TokensInv
  <2> QED
    BY <2>2, <2>3
<1>3. Inv => AlarmOnlyAfterLoss
  BY DEF AlarmInv, AlarmOnlyAfterLoss
<1> HIDE DEF Inv
<1> QED
  BY <1>1, <1>2, <1>3, TokensInvariant, PTL DEF Spec
-----------------------------------------------------------------------------
(* Bans *)

\* A ban is followed by the eviction of the cached user.
Evicts(todo) == \A i \in DOMAIN todo : todo[i] = "ban" => i + 1 \in DOMAIN todo /\ todo[i + 1] = "forget"
EvictInv == \A c \in Calls : Evicts(call[c].todo)

LEMMA EvictsOnward ==
  ASSUME NEW S, NEW s \in Seq(S), s # <<>>, Evicts(s)
  PROVE  Evicts(Tail(s)) /\ (Head(s) = "ban" => Tail(s) # <<>> /\ Head(Tail(s)) = "forget")
<1>1. /\ Len(s) \in Nat \ {0} /\ DOMAIN s = 1..Len(s) /\ DOMAIN Tail(s) = 1..(Len(s) - 1)
      /\ \A i \in 1..(Len(s) - 1) : Tail(s)[i] = s[i + 1]
      /\ Head(s) = s[1] /\ Tail(s) \in Seq(S)
  OBVIOUS
<1>2. Evicts(Tail(s))
  <2> SUFFICES ASSUME NEW i \in DOMAIN Tail(s), Tail(s)[i] = "ban"
               PROVE  i + 1 \in DOMAIN Tail(s) /\ Tail(s)[i + 1] = "forget"
    BY DEF Evicts
  <2>1. i + 1 \in DOMAIN s /\ s[i + 1] = "ban"
    BY <1>1
  <2>2. (i + 1) + 1 \in DOMAIN s /\ s[(i + 1) + 1] = "forget"
    BY <2>1 DEF Evicts
  <2>3. i \in Nat /\ i + 1 \in 1..(Len(s) - 1)
    BY <1>1, <2>2
  <2> QED
    BY <1>1, <2>2, <2>3
<1>3. ASSUME Head(s) = "ban" PROVE Tail(s) # <<>> /\ Head(Tail(s)) = "forget"
  <2>1. 1 \in DOMAIN s /\ s[1] = "ban"
    BY <1>1, <1>3
  <2>2. 1 + 1 \in DOMAIN s /\ s[1 + 1] = "forget"
    BY <2>1 DEF Evicts
  <2>3. 1 \in DOMAIN Tail(s) /\ Tail(s)[1] = "forget"
    BY <1>1, <2>2
  <2>4. \A t \in Seq(S) : 1 \in DOMAIN t => t # <<>> /\ Head(t) = t[1]
    OBVIOUS
  <2> QED
    BY <1>1, <2>3, <2>4
<1> QED
  BY <1>2, <1>3

LEMMA PlansEvict ==
  ASSUME NEW k \in DOMAIN Plan
  PROVE  Evicts(Plan[k]) /\ Evicts(<<"load", "put">> \o Plan[k]) /\ Evicts(Logout) /\ Evicts(<<>>)
<1>1. Evicts(Plan[k]) /\ Evicts(Logout) /\ Evicts(<<>>)
  BY DEF Plan, Evicts, SignupSteps, LoginSteps, RefreshToken, ForgotPassword, ResetPassword,
         VerifyEmail, Logout, ChangePassword, DeleteAccount, UpdateProfile, ResendVerification,
         UpdateBanned, UpdateVerified, DeleteUser
<1>2. Plan[k] \in Seq(Steps)
  BY PlansTyped
<1> HIDE DEF Plan
<1> DEFINE todo == <<"load", "put">> \o Plan[k]
<1>3. /\ todo[1] = "load" /\ todo[2] = "put" /\ DOMAIN todo = 1..Len(todo)
      /\ Len(todo) = Len(Plan[k]) + 2 /\ Len(Plan[k]) \in Nat /\ DOMAIN Plan[k] = 1..Len(Plan[k])
      /\ \A i \in DOMAIN Plan[k] : todo[i + 2] = Plan[k][i]
      /\ \A i \in DOMAIN todo : i \notin {1, 2} => i - 2 \in DOMAIN Plan[k] /\ todo[i] = Plan[k][i - 2]
  BY <1>2, LoadPut
<1> HIDE DEF todo
<1>4. ASSUME NEW i \in DOMAIN todo, todo[i] = "ban" PROVE i + 1 \in DOMAIN todo /\ todo[i + 1] = "forget"
  <2>1. i - 2 \in DOMAIN Plan[k] /\ Plan[k][i - 2] = "ban" /\ i \in Nat
    BY <1>3, <1>4
  <2>2. (i - 2) + 1 \in DOMAIN Plan[k] /\ Plan[k][(i - 2) + 1] = "forget"
    BY <1>1, <2>1 DEF Evicts
  <2>3. todo[((i - 2) + 1) + 2] = "forget"
    BY <1>3, <2>2
  <2>4. ((i - 2) + 1) + 2 = i + 1 /\ i + 1 \in 1..Len(todo)
    BY <1>3, <2>1, <2>2
  <2> QED
    BY <1>3, <2>3, <2>4
<1>5. Evicts(todo)
  BY <1>4 DEF Evicts
<1> QED
  BY <1>1, <1>5 DEF todo

LEMMA EvictNext == Typed /\ EvictInv /\ StepKinds => EvictInv'
<1> SUFFICES ASSUME Typed, EvictInv, StepKinds PROVE EvictInv'
  OBVIOUS
<1>1. ASSUME NEW c \in Calls, Begins(c) PROVE EvictInv'
  <2>1. OthersStay(c) /\ Evicts(call'[c].todo)
    <3>1. PICK kind \in DOMAIN Plan : /\ OthersStay(c)
            /\ \/ call'[c].todo = Plan[kind]
               \/ call'[c].todo = <<"load", "put">> \o Plan[kind]
               \/ call'[c].todo = Logout
      BY <1>1 DEF Begins
    <3> HIDE DEF Plan
    <3> QED
      BY <3>1, PlansEvict
  <2> QED
    BY <2>1 DEF EvictInv, OthersStay
<1>2. ASSUME NEW c \in Calls, Moves(c) PROVE EvictInv'
  <2>1. Evicts(call'[c].todo)
    <3>1. call[c].todo \in Seq(Steps) /\ call[c].todo # <<>> /\ Evicts(call[c].todo) /\ call[c] \in Records
      BY <1>2 DEF Typed, CallsTyped, Records, Moves, EvictInv
    <3>2. Evicts(Tail(call[c].todo))
      BY <3>1, EvictsOnward
    <3>3. CASE Ends(c)
      BY <3>3 DEF Ends, NoCall, Evicts
    <3>4. CASE GoesOn(c)
      <4>1. call'[c].todo = Tail(call[c].todo)
        BY <3>1, <3>4 DEF GoesOn, Alike, Records
      <4> QED
        BY <3>2, <4>1
    <3> QED
      BY <1>2, <3>3, <3>4 DEF Moves
  <2>2. \A d \in Calls \ {c} : call'[d].todo = call[d].todo
    BY <1>2 DEF Moves, Alike
  <2> QED
    BY <2>1, <2>2 DEF EvictInv
<1>3. ASSUME UNCHANGED call PROVE EvictInv'
  BY <1>3 DEF EvictInv
<1> QED
  BY <1>1, <1>2, <1>3 DEF StepKinds, Runs, Rotates, Issues, Answers, Quiet, GraceEnds

\* A request is about to evict the cached user.
Evicting == \E c \in Calls : At(c, "forget")
\* What is cached, or about to be cached, of a banned user shows the ban, was read before the
\* eviction, or is still to be evicted.
BanInv ==
    /\ banned /\ cache # NoUser /\ ~cache.banned /\ ~cache.late => Evicting
    /\ \A c \in Calls : banned /\ At(c, "put") /\ ~call[c].user.banned /\ ~call[c].user.late => Evicting

\* A step of c that neither evicts, nor caches, nor bans.
Calm(c) == /\ OthersStay(c) /\ (banned' = banned \/ ~banned') /\ (cache' = cache \/ cache' = NoUser)
           /\ ~At(c, "forget")
           /\ At(c, "put")' => call'[c].user.banned = banned'

LEMMA BanStays ==
  ASSUME BanInv, NEW c \in Calls, Calm(c) PROVE BanInv'
<1>1. \A d \in Calls \ {c} : call'[d] = call[d]
  BY DEF Calm, OthersStay
<1>2. Evicting => Evicting'
  BY <1>1 DEF Evicting, At, Calm
<1> SUFFICES ASSUME banned' PROVE BanInv'
  BY DEF BanInv
<1>3. banned
  BY DEF Calm
<1>4. cache' # NoUser /\ ~cache'.banned /\ ~cache'.late => Evicting'
  BY <1>2, <1>3 DEF BanInv, Calm
<1>5. ASSUME NEW d \in Calls, At(d, "put")', ~call'[d].user.banned, ~call'[d].user.late PROVE Evicting'
  <2>1. d # c
    BY <1>5 DEF Calm
  <2>2. At(d, "put") /\ ~call[d].user.banned /\ ~call[d].user.late
    BY <1>1, <1>5, <2>1 DEF At
  <2> QED
    BY <1>2, <1>3, <2>2 DEF BanInv
<1> QED
  BY <1>4, <1>5 DEF BanInv

\* A request comes to "put" from "load" only.
LEMMA PutAfterLoad ==
  ASSUME Typed, UserInv, NEW c \in Calls, Moves(c), At(c, "put")'
  PROVE  Head(call[c].todo) = "load" /\ ~Ends(c)
<1>1. /\ call[c] \in Records /\ call[c].todo \in Seq(Steps) /\ call[c].todo # <<>>
      /\ UserKnown(call[c])
  BY DEF Typed, CallsTyped, Records, UserInv, Moves
<1>2. ~Ends(c)
  BY DEF Ends, NoCall, At
<1>3. call'[c].todo = Tail(call[c].todo) /\ Tail(call[c].todo) # <<>>
  BY <1>1, <1>2 DEF Moves, GoesOn, Alike, Records
<1>4. 2 \in DOMAIN call[c].todo /\ call[c].todo[2] = "put" /\ Head(call[c].todo) = call[c].todo[1]
  BY <1>1, <1>3 DEF At
<1>5. call[c].todo[1] = "load"
  BY <1>1, <1>4 DEF UserKnown
<1> QED
  BY <1>2, <1>4, <1>5

LEMMA BanBegins ==
  ASSUME Typed, UserInv, BanInv, NEW c \in Calls, Request(c) PROVE BanInv'
<1>1. Begins(c)
  BY RequestTyped
<1>2. PICK kind \in DOMAIN Plan :
        /\ OthersStay(c) /\ call[c] = NoCall
        /\ \/ call'[c].todo = Plan[kind]
           \/ call'[c].todo = <<"load", "put">> \o Plan[kind]
           \/ call'[c].todo = Logout
  BY <1>1 DEF Begins
<1>3. ~At(c, "put")'
  <2>1. Plan[kind] \in Seq(Steps) /\ Plan[kind] # <<>> /\ "put" \notin Range(Plan[kind])
    BY PlansTyped, PlanFacts
  <2> HIDE DEF Plan
  <2>2. CASE call'[c].todo = Plan[kind]
    <3>1. Head(Plan[kind]) \in Range(Plan[kind])
      BY <2>1, TailFacts
    <3> QED
      BY <2>1, <2>2, <3>1 DEF At
  <2>3. CASE call'[c].todo = <<"load", "put">> \o Plan[kind]
    BY <2>1, <2>3 DEF At
  <2>4. CASE call'[c].todo = Logout
    BY <2>4 DEF At, Logout
  <2> QED
    BY <1>2, <2>2, <2>3, <2>4
<1>4. banned' = banned /\ (cache' = cache \/ cache' = NoUser)
  BY DEF Request, Signup, Login, Refresh, Authenticated, Forgot, FollowLink, AdminRequest, rowVars, webVars
<1>5. ~At(c, "forget")
  BY <1>2 DEF At, NoCall
<1> QED
  BY <1>2, <1>3, <1>4, <1>5, BanStays DEF Calm

LEMMA BanStatement ==
  ASSUME Typed, UserInv, EvictInv, BanInv, NEW c \in Calls, Statement(c) PROVE BanInv'
<1>1. Moves(c) /\ CallsTyped
  BY StatementTyped DEF Runs, Rotates, Issues, Answers, Typed
<1>2. call[c] \in Records /\ call[c].todo \in Seq(Steps) /\ call[c].todo # <<>>
  BY <1>1 DEF CallsTyped, Records, Moves
<1>3. ASSUME NEW known, Finish(c) \/ Proceed(c, known) PROVE OthersStay(c)
  BY <1>1, <1>3 DEF CallsTyped, Finish, Proceed, OthersStay
<1>4. ASSUME OthersStay(c), banned' = banned \/ ~banned', cache' = cache, ~At(c, "forget"), ~At(c, "load")
      PROVE  BanInv'
  <2>1. ~At(c, "put")'
    BY <1>1, <1>2, <1>4, PutAfterLoad DEF At
  <2> QED
    BY <1>4, <2>1, BanStays DEF Calm
<1>5. CASE Load(c)
  <2>1. /\ OthersStay(c) /\ banned' = banned /\ cache' = cache /\ ~At(c, "forget")
    BY <1>3, <1>5 DEF Load, rowVars, webVars, At
  <2>2. ASSUME At(c, "put")' PROVE call'[c].user.banned = banned'
    <3> DEFINE known == [call[c] EXCEPT !.user = UserRow]
    <3>1. ~Ends(c)
      BY <1>1, <2>2, PutAfterLoad
    <3>2. Proceed(c, known)
      BY <1>1, <1>5, <3>1, FinishMoves DEF Load
    <3>3. UserRow \in Users
      BY RowIsUser DEF Typed
    <3>4. known \in Records /\ Alike(known, call[c]) /\ known.user = UserRow
      BY <1>1, <1>2, <3>3, RecordsKnow, ConstantsOK DEF Records, CallsTyped
    <3> HIDE DEF known
    <3>5. call'[c] = [known EXCEPT !.todo = Tail(call[c].todo)]
      BY <1>1, <1>2, <3>1, <3>2, <3>4, ProceedMoves
    <3>6. call'[c].user = UserRow
      BY <3>4, <3>5 DEF Records
    <3> QED
      BY <2>1, <3>6 DEF UserRow
  <2> QED
    BY <2>1, <2>2, BanStays DEF Calm
<1>6. CASE Put(c)
  <2>1. OthersStay(c) /\ banned' = banned /\ cache' = call[c].user /\ At(c, "put")
    BY <1>3, <1>6 DEF Put, rowVars
  <2>2. ~At(c, "put")'
    BY <1>1, <2>1, PutAfterLoad DEF At
  <2>3. Evicting => Evicting'
    BY <2>1 DEF Evicting, OthersStay, At
  <2>4. banned' /\ cache' # NoUser /\ ~cache'.banned /\ ~cache'.late => Evicting'
    BY <2>1, <2>3 DEF BanInv
  <2>5. ASSUME NEW d \in Calls, banned', At(d, "put")', ~call'[d].user.banned, ~call'[d].user.late
        PROVE  Evicting'
    <3>1. d # c
      BY <2>2, <2>5
    <3>2. At(d, "put") /\ ~call[d].user.banned /\ ~call[d].user.late
      BY <2>1, <2>5, <3>1 DEF OthersStay, At
    <3> QED
      BY <2>1, <2>3, <2>5, <3>2 DEF BanInv
  <2> QED
    BY <2>4, <2>5 DEF BanInv
<1>7. CASE Forget(c)
  <2>1. /\ cache' = NoUser
        /\ call' = [d \in Calls |-> IF d = c THEN NoCall
                    ELSE IF At(d, "put") THEN [call[d] EXCEPT !.user.late = TRUE] ELSE call[d]]
    BY <1>7 DEF Forget
  <2>2. ASSUME NEW d \in Calls, At(d, "put")' PROVE call'[d].user.late
    <3>1. d # c
      BY <2>1, <2>2 DEF At, NoCall
    <3>2. call[d] \in Records /\ UserKnown(call[d])
      BY DEF Typed, CallsTyped, UserInv
    <3>3. At(d, "put")
      BY <2>1, <2>2, <3>1 DEF At
    <3>4. call[d].user \in Users
      <4>1. 1 \in DOMAIN call[d].todo /\ call[d].todo[1] = "put"
        BY <3>2, <3>3 DEF At, Records
      <4> QED
        BY <3>2, <4>1 DEF UserKnown
    <3>5. call'[d] = [call[d] EXCEPT !.user = [call[d].user EXCEPT !.late = TRUE]]
      BY <2>1, <3>1, <3>3
    <3> QED
      BY <3>2, <3>4, <3>5 DEF Records, Users
  <2> QED
    BY <2>1, <2>2 DEF BanInv
<1>8. CASE Ban(c)
  <2>1. Proceed(c, call[c]) /\ At(c, "ban")
    BY <1>8 DEF Ban
  <2>2. Tail(call[c].todo) # <<>> /\ Head(Tail(call[c].todo)) = "forget"
    BY <1>2, <2>1, EvictsOnward DEF EvictInv, At
  <2>3. call'[c].todo = Tail(call[c].todo)
    <3>1. call'[c] = [call[c] EXCEPT !.todo = Tail(call[c].todo)]
      BY <1>1, <1>2, <2>1, <2>2, ProceedMoves DEF Alike
    <3> QED
      BY <1>2, <3>1 DEF Records
  <2>4. Evicting'
    BY <2>2, <2>3 DEF Evicting, At
  <2> QED
    BY <2>4 DEF BanInv
<1>9. CASE Fail(c)
  <2>1. /\ OthersStay(c) /\ banned' = banned /\ cache' = cache
    BY <1>3, <1>9 DEF Fail, rowVars, webVars
  <2>2. ~At(c, "forget")
    BY <1>9 DEF Fail, InMemory, At
  <2>3. ~At(c, "put")'
    <3> SUFFICES ASSUME At(c, "put")' PROVE FALSE
      OBVIOUS
    <3>1. Head(call[c].todo) = "load" /\ ~Ends(c)
      BY <1>1, PutAfterLoad
    <3>2. Finish(c)
      BY <1>9, <3>1 DEF Fail, Essential
    <3> QED
      BY <1>1, <3>1, <3>2, FinishMoves
  <2> QED
    BY <2>1, <2>2, <2>3, BanStays DEF Calm
<1>10. CASE Create(c) \/ Retire(c) \/ Mail(c) \/ Mark(c) \/ Judge(c)
  <2>1. OthersStay(c)
    BY <1>3, <1>10 DEF Create, Retire, Mail, Mark, Judge
  <2> QED
    BY <1>4, <1>10, <2>1 DEF Create, Retire, Mail, Mark, Judge, rowVars, webVars, At
<1>11. CASE Rotate(c) \/ Recheck(c) \/ Issue(c) \/ Answer(c) \/ Revoke(c) \/ Lose(c)
  <2>1. OthersStay(c)
    BY <1>3, <1>11 DEF Rotate, Recheck, Issue, Answer, Revoke, Lose
  <2> QED
    BY <1>4, <1>11, <2>1 DEF Rotate, Recheck, Issue, Answer, Revoke, Lose, rowVars, webVars, At
<1>12. CASE SetPassword(c) \/ Drop(c) \/ Write(c) \/ Release(c)
  <2>1. OthersStay(c)
    BY <1>3, <1>12 DEF SetPassword, Drop, Write, Release
  <2> QED
    BY <1>4, <1>12, <2>1 DEF SetPassword, Drop, Write, Release, webVars, At
<1> QED
  BY <1>5, <1>6, <1>7, <1>8, <1>9, <1>10, <1>11, <1>12 DEF Statement

\* Once the admin's request has ended, the middleware serves an unbanned copy of a banned
\* user only if a request had read the row before the eviction and cached it after it.
THEOREM BansReachTheCache == Spec => []BanStands
<1>1. Init => EvictInv /\ BanInv
  BY DEF Init, EvictInv, Evicts, BanInv, NoCall
<1>2. Typed /\ UserInv /\ EvictInv /\ BanInv /\ [Next]_vars => EvictInv' /\ BanInv'
  <2> SUFFICES ASSUME Typed, UserInv, EvictInv, BanInv, [Next]_vars PROVE EvictInv' /\ BanInv'
    OBVIOUS
  <2>1. EvictInv'
    BY NextTyped, EvictNext
  <2>2. ASSUME UNCHANGED <<banned, cache, call>> PROVE BanInv'
    BY <2>2 DEF BanInv, Evicting, At
  <2>3. ASSUME TimePasses \/ Rest \/ UNCHANGED vars PROVE UNCHANGED <<banned, cache, call>>
    BY <2>3 DEF TimePasses, GrowOld, GraceEnds, Rest, vars, rowVars, webVars
  <2>4. BanInv'
    BY <2>2, <2>3, BanBegins, BanStatement DEF Next
  <2> QED
    BY <2>1, <2>4
<1>3. BanInv => BanStands
  BY DEF BanInv, Evicting, BanStands
<1> QED
  BY <1>1, <1>2, <1>3, InitTyped, NextTyped, PTL DEF Spec
-----------------------------------------------------------------------------
(* Password changes *)

\* What the proof uses of the order of statements: an account is created first; a password is
\* set right before the sessions are ended, and before a token is issued.
Ordered(kind, todo) == \A i \in DOMAIN todo :
    /\ todo[i] = "create" => i = 1
    /\ todo[i] = "setPassword" => /\ kind \in {"change", "reset"}
                                  /\ i + 1 \in DOMAIN todo /\ todo[i + 1] = "revoke"
    /\ todo[i] = "revoke" /\ kind \in {"change", "reset"} => i = 1 \/ todo[i - 1] = "setPassword"
    /\ todo[i] \in {"issue", "answer"} => kind \in {"signup", "login", "refresh", "change"}
    /\ todo[i] = "issue" => \A j \in DOMAIN todo : todo[j] = "setPassword" => j < i
OrderInv == \A c \in Calls : Ordered(call[c].kind, call[c].todo)

LEMMA OrderedOnward ==
  ASSUME NEW S, NEW s \in Seq(S), s # <<>>, NEW kind, Ordered(kind, s)
  PROVE  /\ Ordered(kind, Tail(s)) /\ "create" \notin Range(Tail(s))
         /\ Head(s) = "setPassword" => kind \in {"change", "reset"} /\ Tail(s) # <<>> /\ "revoke" \in Range(Tail(s))
         /\ kind \in {"change", "reset"} /\ "revoke" \in Range(s) /\ "setPassword" \notin Range(s)
              => Head(s) = "revoke"
         /\ Head(s) = "issue" => "setPassword" \notin Range(s)
         /\ Head(s) = "revoke" /\ NoRepeats(s) => "setPassword" \notin Range(s)
<1>1. /\ Len(s) \in Nat \ {0} /\ DOMAIN s = 1..Len(s) /\ DOMAIN Tail(s) = 1..(Len(s) - 1)
      /\ \A i \in 1..(Len(s) - 1) : Tail(s)[i] = s[i + 1]
      /\ Head(s) = s[1] /\ Tail(s) \in Seq(S)
  OBVIOUS
<1>2. \A i \in DOMAIN Tail(s) : /\ i \in Nat \ {0} /\ i + 1 \in DOMAIN s /\ i + 1 # 1 /\ (i + 1) - 1 = i
                                /\ Tail(s)[i] = s[i + 1]
  BY <1>1
<1>3. \A i \in DOMAIN Tail(s) : Tail(s)[i] # "create"
  BY <1>2 DEF Ordered
<1>4. Ordered(kind, Tail(s))
  <2> SUFFICES ASSUME NEW i \in DOMAIN Tail(s)
               PROVE  /\ Tail(s)[i] = "create" => i = 1
                      /\ Tail(s)[i] = "setPassword" =>
                           /\ kind \in {"change", "reset"}
                           /\ i + 1 \in DOMAIN Tail(s) /\ Tail(s)[i + 1] = "revoke"
                      /\ Tail(s)[i] = "revoke" /\ kind \in {"change", "reset"} =>
                           i = 1 \/ Tail(s)[i - 1] = "setPassword"
                      /\ Tail(s)[i] \in {"issue", "answer"} => kind \in {"signup", "login", "refresh", "change"}
                      /\ Tail(s)[i] = "issue" =>
                           \A j \in DOMAIN Tail(s) : Tail(s)[j] = "setPassword" => j < i
    BY DEF Ordered
  <2>1. ASSUME Tail(s)[i] = "setPassword"
        PROVE  kind \in {"change", "reset"} /\ i + 1 \in DOMAIN Tail(s) /\ Tail(s)[i + 1] = "revoke"
    <3>1. kind \in {"change", "reset"} /\ (i + 1) + 1 \in DOMAIN s /\ s[(i + 1) + 1] = "revoke"
      BY <1>2, <2>1 DEF Ordered
    <3>2. i + 1 \in 1..(Len(s) - 1)
      BY <1>1, <1>2, <3>1
    <3> QED
      BY <1>1, <3>1, <3>2
  <2>2. ASSUME Tail(s)[i] = "revoke", kind \in {"change", "reset"}, i # 1 PROVE Tail(s)[i - 1] = "setPassword"
    <3>1. s[i] = "setPassword"
      BY <1>2, <2>2 DEF Ordered
    <3>2. i - 1 \in 1..(Len(s) - 1) /\ (i - 1) + 1 = i
      BY <1>1, <1>2, <2>2
    <3> QED
      BY <1>1, <3>1, <3>2
  <2>3. Tail(s)[i] \in {"issue", "answer"} => kind \in {"signup", "login", "refresh", "change"}
    BY <1>2 DEF Ordered
  <2>4. ASSUME Tail(s)[i] = "issue", NEW j \in DOMAIN Tail(s), Tail(s)[j] = "setPassword" PROVE j < i
    <3>1. j + 1 < i + 1
      BY <1>2, <2>4 DEF Ordered
    <3> QED
      BY <1>2, <3>1
  <2> QED
    BY <1>3, <2>1, <2>2, <2>3, <2>4
<1>5. ASSUME Head(s) = "setPassword"
      PROVE  kind \in {"change", "reset"} /\ Tail(s) # <<>> /\ "revoke" \in Range(Tail(s))
  <2>1. 1 \in DOMAIN s /\ s[1] = "setPassword"
    BY <1>1, <1>5
  <2>2. kind \in {"change", "reset"} /\ 1 + 1 \in DOMAIN s /\ s[1 + 1] = "revoke"
    BY <2>1 DEF Ordered
  <2>3. 1 \in DOMAIN Tail(s) /\ Tail(s)[1] = "revoke"
    BY <1>1, <2>2
  <2>4. \A t \in Seq(S) : 1 \in DOMAIN t => t # <<>>
    OBVIOUS
  <2> QED
    BY <1>1, <2>2, <2>3, <2>4 DEF Range
<1>6. ASSUME kind \in {"change", "reset"}, "revoke" \in Range(s), "setPassword" \notin Range(s)
      PROVE  Head(s) = "revoke"
  <2>1. PICK i \in DOMAIN s : s[i] = "revoke"
    BY <1>6 DEF Range
  <2>2. i = 1 \/ s[i - 1] = "setPassword"
    BY <1>6, <2>1 DEF Ordered
  <2>3. i # 1 => i - 1 \in DOMAIN s
    BY <1>1
  <2>4. i = 1
    BY <1>6, <2>2, <2>3 DEF Range
  <2> QED
    BY <1>1, <2>1, <2>4
<1>7. "create" \notin Range(Tail(s))
  BY <1>3 DEF Range
<1>8. ASSUME Head(s) = "issue" PROVE "setPassword" \notin Range(s)
  <2>1. 1 \in DOMAIN s /\ s[1] = "issue"
    BY <1>1, <1>8
  <2>2. \A j \in DOMAIN s : s[j] = "setPassword" => j < 1
    BY <2>1 DEF Ordered
  <2>3. \A j \in DOMAIN s : ~(j < 1)
    BY <1>1
  <2> QED
    BY <2>2, <2>3 DEF Range
<1>9. ASSUME Head(s) = "revoke", NoRepeats(s) PROVE "setPassword" \notin Range(s)
  <2> SUFFICES ASSUME NEW i \in DOMAIN s, s[i] = "setPassword" PROVE FALSE
    BY DEF Range
  <2>1. i + 1 \in DOMAIN s /\ s[i + 1] = s[1] /\ 1 \in DOMAIN s
    BY <1>1, <1>9 DEF Ordered
  <2>2. i + 1 = 1
    BY <1>9, <2>1 DEF NoRepeats
  <2> QED
    BY <1>1, <2>2
<1> QED
  BY <1>4, <1>5, <1>6, <1>7, <1>8, <1>9

LEMMA PlansOrdered ==
  ASSUME NEW k \in DOMAIN Plan
  PROVE  /\ Ordered(k, Plan[k]) /\ Ordered("refresh", Logout) /\ Ordered("none", <<>>)
         /\ k \in NeedsUser => Ordered(k, <<"load", "put">> \o Plan[k])
<1>1. Ordered("signup", SignupSteps) /\ Ordered("login", LoginSteps) /\ Ordered("refresh", RefreshToken)
  BY DEF Ordered, SignupSteps, LoginSteps, RefreshToken
<1>2. Ordered("logout", Logout) /\ Ordered("refresh", Logout) /\ Ordered("none", <<>>)
  BY DEF Ordered, Logout
<1>3. Ordered("change", ChangePassword) /\ Ordered("delete", DeleteAccount)
  BY DEF Ordered, ChangePassword, DeleteAccount
<1>4. Ordered("profile", UpdateProfile) /\ Ordered("resend", ResendVerification)
  BY DEF Ordered, UpdateProfile, ResendVerification
<1>5. Ordered("forgot", ForgotPassword) /\ Ordered("reset", ResetPassword) /\ Ordered("verify", VerifyEmail)
  BY DEF Ordered, ForgotPassword, ResetPassword, VerifyEmail
<1>6. Ordered("ban", UpdateBanned) /\ Ordered("release", UpdateVerified) /\ Ordered("admindelete", DeleteUser)
  BY DEF Ordered, UpdateBanned, UpdateVerified, DeleteUser
<1>7. Ordered(k, Plan[k])
  BY <1>1, <1>2, <1>3, <1>4, <1>5, <1>6 DEF Plan
<1>8. k \in NeedsUser => Ordered(k, <<"load", "put">> \o Plan[k])
  <2>1. /\ Ordered("logout", <<"load", "put">> \o Logout)
        /\ Ordered("delete", <<"load", "put">> \o DeleteAccount)
        /\ Ordered("profile", <<"load", "put">> \o UpdateProfile)
        /\ Ordered("resend", <<"load", "put">> \o ResendVerification)
    BY DEF Ordered, Logout, DeleteAccount, UpdateProfile, ResendVerification
  <2>2. Ordered("change", <<"load", "put">> \o ChangePassword)
    BY DEF Ordered, ChangePassword
  <2> QED
    BY <2>1, <2>2 DEF NeedsUser, Plan
<1> QED
  BY <1>2, <1>7, <1>8

LEMMA OrderNext == Typed /\ OrderInv /\ StepKinds => OrderInv'
<1> SUFFICES ASSUME Typed, OrderInv, StepKinds PROVE OrderInv'
  OBVIOUS
<1>1. ASSUME NEW c \in Calls, Begins(c) PROVE OrderInv'
  <2>1. OthersStay(c) /\ Ordered(call'[c].kind, call'[c].todo)
    <3>1. PICK kind \in DOMAIN Plan : /\ OthersStay(c) /\ call'[c].kind = kind
            /\ \/ call'[c].todo = Plan[kind]
               \/ kind \in NeedsUser /\ call'[c].todo = <<"load", "put">> \o Plan[kind]
               \/ kind = "refresh" /\ call'[c].todo = Logout
      BY <1>1 DEF Begins
    <3> HIDE DEF Plan
    <3> QED
      BY <3>1, PlansOrdered
  <2> QED
    BY <2>1 DEF OrderInv, OthersStay
<1>2. ASSUME NEW c \in Calls, Moves(c) PROVE OrderInv'
  <2>1. Ordered(call'[c].kind, call'[c].todo)
    <3>1. /\ call[c].todo \in Seq(Steps) /\ call[c].todo # <<>> /\ Ordered(call[c].kind, call[c].todo)
          /\ call[c] \in Records
      BY <1>2 DEF Typed, CallsTyped, Records, Moves, OrderInv
    <3>2. Ordered(call[c].kind, Tail(call[c].todo))
      BY <3>1, OrderedOnward
    <3>3. CASE Ends(c)
      BY <3>3 DEF Ends, NoCall, Ordered
    <3>4. CASE GoesOn(c)
      <4>1. call'[c].todo = Tail(call[c].todo) /\ call'[c].kind = call[c].kind
        BY <3>1, <3>4 DEF GoesOn, Alike, Records
      <4> QED
        BY <3>2, <4>1
    <3> QED
      BY <1>2, <3>3, <3>4 DEF Moves
  <2>2. \A d \in Calls \ {c} : call'[d].todo = call[d].todo /\ call'[d].kind = call[d].kind
    BY <1>2 DEF Moves, Alike
  <2> QED
    BY <2>1, <2>2 DEF OrderInv
<1>3. ASSUME UNCHANGED call PROVE OrderInv'
  BY <1>3 DEF OrderInv
<1> QED
  BY <1>1, <1>2, <1>3 DEF StepKinds, Runs, Rotates, Issues, Answers, Quiet, GraceEnds

\* A request that has set the password and has still to end the sessions.
Ending(c) == EndsSessions(c) /\ "revoke" \in Still(c) /\ "setPassword" \notin Still(c)
\* A request past its checks that has still a token to insert.
Sending(c) == "issue" \in Still(c) /\ {"create", "rotate", "setPassword"} \cap Still(c) = {}
\* The token of a request, and one of the table, that may be good.
EndingBut(c) == \E d \in Calls : d # c /\ Ending(d)
Excused(c) == call[c].basis = password \/ call[c].serial \in slipped \/ EndingBut(c)
Good(t) == token[t].status = "active"
Allowed(t) == token[t].basis = password \/ t \in slipped \/ \E c \in Calls : Ending(c)

\* A good token stems from the password of today, has slipped through, or is about to go;
\* and so would one that is about to be inserted.
SessionInv ==
    /\ account # "live" => \A t \in Serials : ~Good(t)
    /\ account = "none" => /\ \A b \in Browsers : ~jwt[b] /\ stored[b] = Nothing
                           /\ \A c \in Calls : {"issue", "answer"} \cap Still(c) # {} => "create" \in Still(c)
    /\ \A t \in Serials : Good(t) => Allowed(t)
    /\ account = "live" => \A c \in Calls : Sending(c) => Excused(c)
    /\ \A c \in Calls : "rotate" \in Still(c) /\ Good(call[c].ref) => token[call[c].ref].basis = call[c].basis
    /\ \A c \in Calls : call[c].kind = "change" /\ "issue" \in Still(c) => call[c].basis = call[c].serial

\* The requests keep the password they started from.
Keeps(c) == /\ \A d \in Calls \ {c} : call'[d].basis = call[d].basis
            /\ ~Ends(c) => call'[c].basis = call[c].basis

LEMMA KeepsBasis ==
  ASSUME Typed, UserInv, NEW c \in Calls, call[c].todo # <<>>,
         \/ Finish(c)
         \/ \E known \in Records : Alike(known, call[c]) /\ known.basis = call[c].basis /\ Proceed(c, known)
  PROVE  Keeps(c) /\ OthersStay(c)
<1>1. CallsTyped
  BY DEF Typed
<1>2. CASE Finish(c)
  BY <1>1, <1>2, FinishMoves DEF Keeps, OthersStay
<1>3. ASSUME NEW known \in Records, Alike(known, call[c]), known.basis = call[c].basis, Proceed(c, known)
      PROVE  Keeps(c) /\ OthersStay(c)
  <2>1. OthersStay(c) /\ (~Ends(c) => call'[c] = [known EXCEPT !.todo = Tail(call[c].todo)])
    BY <1>1, <1>3, ProceedMoves
  <2>2. ~Ends(c) => call'[c].basis = call[c].basis
    BY <1>3, <2>1 DEF Records
  <2> QED
    BY <2>1, <2>2 DEF Keeps, OthersStay
<1> QED
  BY <1>2, <1>3

\* What a step of c leaves of the requests that end sessions or insert tokens.
LEMMA SessionView ==
  ASSUME Typed, CallInv, OrderInv, NEW c \in Calls, Moves(c)
  PROVE  /\ \A d \in Calls \ {c} : /\ Still(d)' = Still(d) /\ SameCall(d)
                                   /\ Ending(d)' = Ending(d) /\ Sending(d)' = Sending(d)
         /\ Ending(c) => Head(call[c].todo) = "revoke"
         /\ EndingBut(c)' = EndingBut(c)
         /\ Head(call[c].todo) \in Still(c) /\ "create" \notin Still(c)'
         /\ "create" \in Still(c) => Head(call[c].todo) = "create"
         /\ "rotate" \in Still(c) => Head(call[c].todo) = "rotate"
         /\ "rotate" \notin Still(c)'
         /\ Sending(c)' => Sending(c) \/ Head(call[c].todo) \in {"create", "rotate", "setPassword"}
         /\ Still(c)' \subseteq Still(c) /\ (Still(c)' # {} => ~Ends(c) /\ SameCall(c))
         /\ Head(call[c].todo) \in {"issue", "revoke"} => "setPassword" \notin Still(c)
<1>1. /\ \A d \in Calls \ {c} : Still(d)' = Still(d) /\ SameCall(d)
      /\ Head(call[c].todo) \in Still(c)
      /\ Ends(c) => Still(c)' = {}
      /\ ~Ends(c) => Still(c)' = Still(c) \ {Head(call[c].todo)} /\ SameCall(c)
  BY MovesView
<1>2. call[c].todo \in Seq(Steps) /\ call[c].todo # <<>> /\ Ordered(call[c].kind, call[c].todo)
  BY DEF Typed, CallsTyped, Records, Moves, OrderInv
<1>3. "create" \in Still(c) => Head(call[c].todo) = "create"
  BY <1>2, TailFacts, OrderedOnward DEF Still
<1>4. "rotate" \in Still(c) => Head(call[c].todo) = "rotate"
  BY RefreshFacts DEF CallInv
<1>5. Ending(c) => Head(call[c].todo) = "revoke"
  BY <1>2, OrderedOnward DEF Ending, EndsSessions, Still
<1>6. \A d \in Calls \ {c} : Ending(d)' = Ending(d) /\ Sending(d)' = Sending(d)
  BY <1>1 DEF Ending, Sending, EndsSessions, SameCall
<1>7. EndingBut(c)' = EndingBut(c)
  BY <1>6 DEF EndingBut
<1>8. Sending(c)' => Sending(c) \/ Head(call[c].todo) \in {"create", "rotate", "setPassword"}
  BY <1>1 DEF Sending
<1>9. Head(call[c].todo) \in {"issue", "revoke"} => "setPassword" \notin Still(c)
  BY <1>2, OrderedOnward DEF CallInv, Still
<1>10. "create" \notin Still(c)'
  <2>1. "create" \in Still(c) => Head(call[c].todo) = "create"
    BY <1>3
  <2> QED
    BY <1>1, <2>1
<1> QED
  BY <1>1, <1>3, <1>4, <1>5, <1>6, <1>7, <1>8, <1>9, <1>10

\* A step of c that changes neither the password nor what an ending request is about to do.
Passes(c) ==
    /\ Moves(c) /\ Keeps(c) /\ ~Ending(c) /\ UNCHANGED <<account, password>>
    /\ \A d \in Calls : call[d].serial \in slipped => call[d].serial \in slipped'
    /\ \A t \in Serials : Good(t)' =>
         \/ Good(t) /\ token'[t] = token[t] /\ (t \in slipped => t \in slipped')
         \/ /\ t = call[c].serial /\ token'[t].basis = call[c].basis
            /\ account = "live" /\ Sending(c)
    /\ account = "none" => UNCHANGED <<stored, jwt>> /\ (Head(call[c].todo) = "create" => Ends(c))
    /\ Sending(c)' /\ ~Sending(c) /\ account = "live" =>
         call[c].basis = password \/ call[c].serial \in slipped' \/ EndingBut(c)

LEMMA SessionsPass ==
  ASSUME Typed, CallInv, TokenInv, OrderInv, SessionInv, NEW c \in Calls, Passes(c)
  PROVE  SessionInv'
<1>1. /\ Moves(c) /\ Keeps(c) /\ ~Ending(c) /\ account' = account /\ password' = password
      /\ \A d \in Calls : call[d].serial \in Serials /\ call[d].ref \in Serials
  BY DEF Passes, Typed, CallsTyped, Records
<1>2. /\ \A d \in Calls \ {c} : /\ Still(d)' = Still(d) /\ SameCall(d)
                                /\ Ending(d)' = Ending(d) /\ Sending(d)' = Sending(d)
      /\ EndingBut(c)' = EndingBut(c)
      /\ "create" \in Still(c) => Head(call[c].todo) = "create"
      /\ "rotate" \notin Still(c)'
      /\ Still(c)' \subseteq Still(c) /\ (Still(c)' # {} => ~Ends(c) /\ SameCall(c))
  BY <1>1, SessionView
<1>3. \A d \in Calls : Ending(d) => Ending(d)'
  BY <1>1, <1>2
<1>4. ASSUME NEW d \in Calls, EndingBut(d) PROVE EndingBut(d)'
  BY <1>3, <1>4 DEF EndingBut
<1>5. ASSUME NEW d \in Calls, Still(d)' # {}
      PROVE  SameCall(d) /\ call'[d].basis = call[d].basis /\ Still(d)' \subseteq Still(d)
  BY <1>1, <1>2, <1>5 DEF Keeps
<1>6. ASSUME NEW t \in Serials, Good(t)' PROVE account = "live" /\ Allowed(t)'
  <2>1. CASE Good(t) /\ token'[t] = token[t] /\ (t \in slipped => t \in slipped')
    <3>1. account = "live" /\ Allowed(t)
      BY <2>1 DEF SessionInv
    <3> QED
      BY <1>1, <1>3, <2>1, <3>1 DEF Allowed
  <2>2. CASE /\ t = call[c].serial /\ token'[t].basis = call[c].basis
             /\ account = "live" /\ Sending(c)
    <3>1. Excused(c)
      BY <2>2 DEF SessionInv
    <3>2. EndingBut(c) => \E d \in Calls : Ending(d)'
      BY <1>3 DEF EndingBut
    <3>3. t \in slipped => t \in slipped'
      BY <2>2 DEF Passes
    <3> QED
      BY <1>1, <2>2, <3>1, <3>2, <3>3 DEF Excused, Allowed
  <2> QED
    BY <1>6, <2>1, <2>2 DEF Passes
<1>7. ASSUME account = "none"
      PROVE  /\ \A b \in Browsers : ~jwt'[b] /\ stored'[b] = Nothing
             /\ \A d \in Calls : {"issue", "answer"} \cap Still(d)' # {} => "create" \in Still(d)'
  <2>1. \A b \in Browsers : ~jwt'[b] /\ stored'[b] = Nothing
    BY <1>7 DEF SessionInv, Passes
  <2>2. ASSUME NEW d \in Calls, {"issue", "answer"} \cap Still(d)' # {} PROVE "create" \in Still(d)'
    <3>1. "create" \in Still(d)
      BY <1>5, <1>7, <2>2 DEF SessionInv
    <3>2. d # c
      BY <1>2, <1>7, <2>2, <3>1 DEF Passes
    <3> QED
      BY <1>2, <3>1, <3>2
  <2> QED
    BY <2>1, <2>2
<1>8. ASSUME account = "live", NEW d \in Calls, Sending(d)' PROVE Excused(d)'
  <2>1. SameCall(d) /\ call'[d].basis = call[d].basis
    BY <1>5, <1>8 DEF Sending
  <2>2. CASE Sending(d)
    <3>1. Excused(d)
      BY <1>8, <2>2 DEF SessionInv
    <3>2. call[d].serial \in slipped => call'[d].serial \in slipped'
      BY <2>1 DEF Passes, SameCall
    <3> QED
      BY <1>1, <1>4, <2>1, <3>1, <3>2 DEF Excused
  <2>3. CASE ~Sending(d)
    <3>1. d = c
      BY <1>2, <1>8, <2>3
    <3>2. call[c].basis = password \/ call[c].serial \in slipped' \/ EndingBut(c)
      BY <1>8, <2>3, <3>1 DEF Passes
    <3> QED
      BY <1>1, <1>2, <2>1, <3>1, <3>2 DEF Excused, SameCall
  <2> QED
    BY <2>2, <2>3
<1>9. ASSUME NEW d \in Calls, "rotate" \in Still(d)', Good(call[d].ref)'
      PROVE  token'[call'[d].ref].basis = call'[d].basis
  <2>1. d # c
    BY <1>2, <1>9
  <2>2. "rotate" \in Still(d) /\ call'[d].ref = call[d].ref /\ call'[d].basis = call[d].basis
    BY <1>2, <1>5, <1>9, <2>1 DEF SameCall
  <2>3. call[d].ref # call[c].serial \/ ~Sending(c)
    BY <2>2 DEF TokenInv, Sending
  <2>4. token'[call[d].ref].status = "active"
    BY <1>9, <2>2 DEF Good
  <2>5. Good(call[d].ref) /\ token'[call[d].ref] = token[call[d].ref]
    BY <1>1, <2>3, <2>4 DEF Passes, Good
  <2> QED
    BY <2>2, <2>5 DEF SessionInv
<1>10. ASSUME NEW d \in Calls, call'[d].kind = "change", "issue" \in Still(d)'
       PROVE  call'[d].basis = call'[d].serial
  BY <1>5, <1>10 DEF SessionInv, SameCall
<1> QED
  BY <1>1, <1>6, <1>7, <1>8, <1>9, <1>10 DEF SessionInv

\* The sessions end: every token that stays, or is being inserted, has slipped through.
Sweeps(c) ==
    /\ Moves(c) /\ Keeps(c) /\ Ending(c) /\ UNCHANGED <<account, password, stored, jwt>>
    /\ call[c].serial \in slipped => call[c].serial \in slipped'
    /\ \A t \in Serials : Good(t)' => Good(t) /\ token'[t] = token[t] /\ t \in slipped'
    /\ \A d \in Issuing \ {c} : call[d].serial \in slipped'

LEMMA SessionsSwept ==
  ASSUME Typed, CallInv, OrderInv, SessionInv, NEW c \in Calls, Sweeps(c)
  PROVE  SessionInv'
<1>1. /\ Moves(c) /\ Keeps(c) /\ account' = account /\ password' = password
      /\ stored' = stored /\ jwt' = jwt /\ Head(call[c].todo) = "revoke"
  BY SessionView DEF Sweeps
<1>2. /\ \A d \in Calls \ {c} : /\ Still(d)' = Still(d) /\ SameCall(d) /\ Sending(d)' = Sending(d)
      /\ EndingBut(c)' = EndingBut(c)
      /\ "create" \notin Still(c) /\ "rotate" \notin Still(c)'
      /\ Sending(c)' => Sending(c)
      /\ Still(c)' \subseteq Still(c) /\ (Still(c)' # {} => ~Ends(c) /\ SameCall(c))
  BY <1>1, SessionView
<1>3. ASSUME NEW d \in Calls, Still(d)' # {}
      PROVE  SameCall(d) /\ call'[d].basis = call[d].basis /\ Still(d)' \subseteq Still(d)
  BY <1>1, <1>2, <1>3 DEF Keeps
<1>4. \A t \in Serials : Good(t)' => account = "live" /\ Allowed(t)'
  BY DEF Sweeps, SessionInv, Allowed
<1>5. ASSUME account = "none"
      PROVE  /\ \A b \in Browsers : ~jwt'[b] /\ stored'[b] = Nothing
             /\ \A d \in Calls : {"issue", "answer"} \cap Still(d)' # {} => "create" \in Still(d)'
  <2>1. ASSUME NEW d \in Calls, {"issue", "answer"} \cap Still(d)' # {} PROVE "create" \in Still(d)'
    <3>1. "create" \in Still(d)
      BY <1>3, <1>5, <2>1 DEF SessionInv
    <3> QED
      BY <1>2, <3>1
  <2> QED
    BY <1>1, <1>5, <2>1 DEF SessionInv
<1>6. ASSUME account = "live", NEW d \in Calls, Sending(d)' PROVE Excused(d)'
  <2>1. SameCall(d) /\ call'[d].basis = call[d].basis /\ Sending(d)
    BY <1>2, <1>3, <1>6 DEF Sending
  <2>2. CASE d = c
    <3>1. Excused(c)
      BY <1>6, <2>1, <2>2 DEF SessionInv
    <3>2. call[c].serial \in slipped => call'[c].serial \in slipped'
      BY <2>1, <2>2 DEF Sweeps, SameCall
    <3> QED
      BY <1>1, <1>2, <2>1, <2>2, <3>1, <3>2 DEF Excused
  <2>3. CASE d # c
    <3>1. d \in Issuing \ {c}
      BY <2>1, <2>3 DEF Sending, Issuing
    <3> QED
      BY <2>1, <3>1 DEF Sweeps, Excused, SameCall
  <2> QED
    BY <2>2, <2>3
<1>7. ASSUME NEW d \in Calls, "rotate" \in Still(d)', Good(call[d].ref)'
      PROVE  token'[call'[d].ref].basis = call'[d].basis
  <2>1. "rotate" \in Still(d) /\ call'[d].ref = call[d].ref /\ call'[d].basis = call[d].basis
    BY <1>3, <1>7 DEF SameCall
  <2>2. call[d].ref \in Serials
    BY DEF Typed, CallsTyped, Records
  <2>3. token'[call[d].ref].status = "active"
    BY <1>7, <2>1 DEF Good
  <2>4. Good(call[d].ref) /\ token'[call[d].ref] = token[call[d].ref]
    BY <2>2, <2>3 DEF Sweeps, Good
  <2> QED
    BY <2>1, <2>4 DEF SessionInv
<1>8. ASSUME NEW d \in Calls, call'[d].kind = "change", "issue" \in Still(d)'
      PROVE  call'[d].basis = call'[d].serial
  BY <1>3, <1>8 DEF SessionInv, SameCall
<1> QED
  BY <1>1, <1>4, <1>5, <1>6, <1>7, <1>8 DEF SessionInv

LEMMA SessionsCreate ==
  ASSUME Typed, UserInv, CallInv, OrderInv, SessionInv, NEW c \in Calls, Create(c), account = "none"
  PROVE  SessionInv'
<1> DEFINE known == [call[c] EXCEPT !.basis = call[c].serial]
<1>1. /\ account' = "live" /\ password' = call[c].serial /\ token' = token
      /\ Proceed(c, known) /\ call[c].todo # <<>> /\ Head(call[c].todo) = "create"
  BY DEF Create, At, tableVars
<1>2. CallsTyped /\ call[c] \in Records /\ call[c].serial \in Serials
  BY DEF Typed, CallsTyped, Records
<1>3. known \in Records /\ Alike(known, call[c]) /\ known.basis = call[c].serial
  <2>1. NoUser \in Users \cup {NoUser}
    OBVIOUS
  <2>2. known \in Records /\ Alike(known, call[c])
    BY <1>2, <2>1, RecordsKnow
  <2>3. known.basis = call[c].serial
    BY <1>2 DEF Records
  <2> QED
    BY <2>2, <2>3
<1> HIDE DEF known
<1>4. OthersStay(c) /\ (~Ends(c) => call'[c] = [known EXCEPT !.todo = Tail(call[c].todo)])
  BY <1>1, <1>2, <1>3, ProceedMoves
<1>5. ~Ends(c) => call'[c].basis = call[c].serial
  BY <1>3, <1>4 DEF Records
<1>6. Moves(c)
  BY <1>1, <1>3, ProceedOnward
<1>7. /\ \A d \in Calls \ {c} : /\ Still(d)' = Still(d) /\ SameCall(d) /\ Sending(d)' = Sending(d)
                                /\ call'[d] = call[d]
      /\ "rotate" \notin Still(c)'
      /\ Still(c)' # {} => ~Ends(c) /\ SameCall(c)
  BY <1>4, <1>6, SessionView DEF OthersStay
<1>8. \A t \in Serials : ~Good(t)'
  BY <1>1 DEF SessionInv, Good
<1>9. ASSUME NEW d \in Calls, Sending(d)' PROVE Excused(d)'
  <2>1. d = c
    BY <1>7, <1>9 DEF SessionInv, Sending
  <2>2. call'[c].basis = password'
    BY <1>1, <1>5, <1>7, <1>9, <2>1 DEF Sending
  <2> QED
    BY <2>1, <2>2 DEF Excused
<1>10. ASSUME NEW d \in Calls, "rotate" \in Still(d)' PROVE ~Good(call[d].ref)'
  <2>1. call'[d].ref = call[d].ref /\ call[d].ref \in Serials
    BY <1>2, <1>7, <1>10 DEF SameCall, CallsTyped, Records
  <2> QED
    BY <1>8, <2>1 DEF Good
<1>11. ASSUME NEW d \in Calls, call'[d].kind = "change", "issue" \in Still(d)'
       PROVE  call'[d].basis = call'[d].serial
  <2>1. CASE d = c
    BY <1>5, <1>7, <1>11, <2>1 DEF SameCall
  <2>2. CASE d # c
    BY <1>7, <1>11, <2>2 DEF SessionInv
  <2> QED
    BY <2>1, <2>2
<1> QED
  BY <1>1, <1>8, <1>9, <1>10, <1>11 DEF SessionInv

\* From here on every older session is excused until this request has ended it.
LEMMA SessionsNewPassword ==
  ASSUME Typed, UserInv, CallInv, OrderInv, SessionInv, NEW c \in Calls, SetPassword(c)
  PROVE  SessionInv'
<1>1. /\ account' = account /\ token' = token /\ slipped' = slipped /\ stored' = stored /\ jwt' = jwt
      /\ password' = IF account = "live" THEN call[c].serial ELSE password
      /\ Proceed(c, call[c]) /\ call[c].todo # <<>> /\ Head(call[c].todo) = "setPassword"
  BY DEF SetPassword, At, tableVars, webVars, pastVars
<1>2. /\ CallsTyped /\ call[c] \in Records /\ Alike(call[c], call[c])
      /\ call[c].todo \in Seq(Steps) /\ Ordered(call[c].kind, call[c].todo)
  BY DEF Typed, CallsTyped, Records, Alike, OrderInv
<1>3. Moves(c) /\ Keeps(c) /\ (Ends(c) => Tail(call[c].todo) = <<>>)
  BY <1>1, <1>2, ProceedOnward, KeepsBasis
<1>4. /\ call[c].kind \in {"change", "reset"} /\ Tail(call[c].todo) # <<>>
      /\ "revoke" \in Range(Tail(call[c].todo))
  BY <1>1, <1>2, OrderedOnward
<1>5. /\ \A d \in Calls \ {c} : /\ Still(d)' = Still(d) /\ SameCall(d)
      /\ ~Ends(c) /\ Still(c)' = Still(c) \ {"setPassword"} /\ SameCall(c)
  BY <1>1, <1>3, <1>4, MovesView
<1>6. "revoke" \in Still(c)
  BY <1>2, <1>4, TailFacts, <1>1 DEF Still
<1>7. Ending(c)'
  BY <1>4, <1>5, <1>6 DEF Ending, EndsSessions, SameCall
<1>8. \A d \in Calls : /\ SameCall(d) /\ call'[d].basis = call[d].basis /\ Still(d)' \subseteq Still(d)
                       /\ ("create" \in Still(d) => "create" \in Still(d)')
  BY <1>3, <1>5 DEF Keeps
<1>9. \A t \in Serials : Good(t)' => account' = "live" /\ Allowed(t)'
  BY <1>1, <1>7 DEF Good, Allowed, SessionInv
<1>10. ASSUME account = "none"
       PROVE  /\ \A b \in Browsers : ~jwt'[b] /\ stored'[b] = Nothing
              /\ \A d \in Calls : {"issue", "answer"} \cap Still(d)' # {} => "create" \in Still(d)'
  <2>1. \A d \in Calls : {"issue", "answer"} \cap Still(d)' # {} => "create" \in Still(d)'
    BY <1>8, <1>10 DEF SessionInv
  <2> QED
    BY <1>1, <1>10, <2>1 DEF SessionInv
<1>11. ASSUME account = "live", NEW d \in Calls, Sending(d)' PROVE Excused(d)'
  <2>1. CASE d = c
    <3>1. "issue" \in Still(c)
      BY <1>8, <1>11, <2>1 DEF Sending
    <3>2. call[c].kind = "change"
      <4>1. call[c].kind \in {"signup", "login", "refresh", "change"}
        BY <1>2, <3>1 DEF Ordered, Still, Range
      <4> QED
        BY <1>4, <4>1
    <3>3. call[c].basis = call[c].serial
      BY <3>1, <3>2 DEF SessionInv
    <3> QED
      BY <1>1, <1>8, <1>11, <2>1, <3>3 DEF Excused
  <2>2. CASE d # c
    BY <1>7, <2>2 DEF Excused, EndingBut
  <2> QED
    BY <2>1, <2>2
<1>12. ASSUME NEW d \in Calls, "rotate" \in Still(d)', Good(call[d].ref)'
       PROVE  token'[call'[d].ref].basis = call'[d].basis
  <2>1. "rotate" \in Still(d) /\ call'[d].ref = call[d].ref /\ call'[d].basis = call[d].basis
    BY <1>8, <1>12 DEF SameCall
  <2>2. Good(call[d].ref)
    BY <1>1, <1>12, <2>1 DEF Good
  <2> QED
    BY <1>1, <2>1, <2>2 DEF SessionInv
<1>13. ASSUME NEW d \in Calls, call'[d].kind = "change", "issue" \in Still(d)'
       PROVE  call'[d].basis = call'[d].serial
  BY <1>8, <1>13 DEF SessionInv, SameCall
<1> QED
  BY <1>1, <1>9, <1>10, <1>11, <1>12, <1>13 DEF SessionInv

LEMMA SessionsDropped ==
  ASSUME Typed, UserInv, CallInv, SessionInv, NEW c \in Calls, Drop(c)
  PROVE  SessionInv'
<1>1. /\ account' = "gone" /\ token' = [t \in Serials |-> NoToken]
      /\ Finish(c) /\ call[c].todo # <<>>
  BY DEF Drop, At
<1>2. Moves(c) /\ Ends(c) /\ OthersStay(c)
  BY <1>1, FinishOnward, KeepsBasis
<1>3. \A t \in Serials : ~Good(t)'
  BY <1>1 DEF Good, NoToken
<1>4. /\ \A d \in Calls \ {c} : call'[d] = call[d] /\ Still(d)' = Still(d)
      /\ Still(c)' = {}
  BY <1>2, MovesView DEF OthersStay
<1>5. ASSUME NEW d \in Calls, "rotate" \in Still(d)' PROVE ~Good(call[d].ref)'
  <2>1. call'[d].ref \in Serials /\ call'[d] = call[d]
    BY <1>4, <1>5 DEF Typed, CallsTyped, Records
  <2> QED
    BY <1>3, <2>1 DEF Good
<1>6. ASSUME NEW d \in Calls, call'[d].kind = "change", "issue" \in Still(d)'
      PROVE  call'[d].basis = call'[d].serial
  BY <1>4, <1>6 DEF SessionInv
<1> QED
  BY <1>1, <1>3, <1>5, <1>6 DEF SessionInv

LEMMA SessionsBegin ==
  ASSUME Typed, CallInv, TokenInv, SessionInv, NEW c \in Calls, Begins(c)
  PROVE  SessionInv'
<1> DEFINE todo == call'[c].todo
<1>1. PICK kind \in DOMAIN Plan :
        /\ OthersStay(c) /\ call'[c].kind = kind /\ call'[c].serial = requests + 1
        /\ \/ todo = Plan[kind]
           \/ kind \in NeedsUser /\ todo = <<"load", "put">> \o Plan[kind]
           \/ kind = "refresh" /\ todo = Logout
        /\ \/ kind = "refresh" /\ \E b \in Browsers :
                /\ stored[b] # Nothing /\ call'[c].ref = stored[b]
                /\ call'[c].basis = token[stored[b]].basis
           \/ kind # "refresh" /\ MayBegin(kind) /\ call'[c].basis = BasisOf(kind)
  BY DEF Begins
<1>2. UNCHANGED <<token, stored, jwt, slipped, account, password>>
  BY DEF Begins
<1>3. /\ Still(c) = {}
      /\ \A d \in Calls \ {c} : Still(d)' = Still(d) /\ SameCall(d) /\ call'[d] = call[d]
  BY <1>1, BeginsView DEF OthersStay
<1>4. Still(c)' = Range(todo)
  BY DEF Still
<1>5. /\ {"issue", "answer"} \cap Range(todo) # {} =>
           \/ kind \in {"signup", "login"} /\ todo = Plan[kind]
           \/ kind = "change"
           \/ kind = "refresh" /\ todo = RefreshToken
      /\ kind = "change" => "setPassword" \in Range(todo)
      /\ "rotate" \in Range(todo) => kind = "refresh"
  <2>1. Ordered(kind, todo)
    BY <1>1, PlansOrdered
  <2>2. {"issue", "answer"} \cap Range(todo) # {} => kind \in {"signup", "login", "refresh", "change"}
    BY <2>1 DEF Ordered, Range
  <2>3. kind \in {"signup", "login", "refresh"} => kind \notin NeedsUser
    BY DEF NeedsUser
  <2>4. Plan["refresh"] = RefreshToken /\ {"issue", "answer"} \cap Range(Logout) = {}
    BY RefreshFacts
  <2>5. kind = "change" => "setPassword" \in Range(todo)
    <3>1. Plan["change"] = ChangePassword
      BY DEF Plan
    <3> HIDE DEF Plan, todo
    <3>2. "setPassword" \in Range(ChangePassword) /\ "setPassword" \in Range(<<"load", "put">> \o ChangePassword)
      BY DEF ChangePassword, Range
    <3> QED
      BY <1>1, <3>1, <3>2
  <2>6. "rotate" \in Range(todo) => kind = "refresh"
    <3>1. CallInv' /\ ("rotate" \in Still(c)' => call'[c].kind = "refresh")
      BY BeginsView DEF CallInv
    <3> QED
      BY <1>1, <1>4, <3>1
  <2> HIDE DEF todo, Plan
  <2> QED
    BY <1>1, <2>2, <2>3, <2>4, <2>5, <2>6
<1>6. /\ kind = "signup" /\ todo = Plan[kind] => "create" \in Range(todo)
      /\ "rotate" \in Range(RefreshToken)
  BY RefreshFacts DEF Plan, SignupSteps, Range
<1> HIDE DEF todo, Plan
<1>7. \A d \in Calls : Ending(d) => Ending(d)'
  BY <1>3 DEF Ending, EndsSessions
<1>8. \A d \in Calls : EndingBut(d) => EndingBut(d)'
  BY <1>7 DEF EndingBut
<1>9. ASSUME NEW t \in Serials, Good(t)' PROVE account' = "live" /\ Allowed(t)'
  BY <1>2, <1>7, <1>9 DEF Good, Allowed, SessionInv
<1>10. ASSUME account = "none"
       PROVE  /\ \A b \in Browsers : ~jwt'[b] /\ stored'[b] = Nothing
              /\ \A d \in Calls : {"issue", "answer"} \cap Still(d)' # {} => "create" \in Still(d)'
  <2>1. \A b \in Browsers : ~jwt[b] /\ stored[b] = Nothing
    BY <1>10 DEF SessionInv
  <2>2. kind \notin {"login", "change", "refresh"}
    BY <1>1, <1>10, <2>1 DEF MayBegin
  <2>3. {"issue", "answer"} \cap Still(c)' # {} => "create" \in Still(c)'
    BY <1>4, <1>5, <1>6, <2>2
  <2>4. \A d \in Calls \ {c} : {"issue", "answer"} \cap Still(d)' # {} => "create" \in Still(d)'
    BY <1>3, <1>10 DEF SessionInv
  <2> QED
    BY <1>2, <2>1, <2>3, <2>4
<1>11. ASSUME account = "live", NEW d \in Calls, Sending(d)' PROVE Excused(d)'
  <2>1. CASE d = c
    <3>1. kind = "login"
      BY <1>4, <1>5, <1>6, <1>11, <2>1 DEF Sending
    <3> QED
      BY <1>1, <1>2, <2>1, <3>1 DEF Excused, BasisOf
  <2>2. CASE d # c
    <3>1. Sending(d)
      BY <1>3, <1>11, <2>2 DEF Sending
    <3>2. Excused(d)
      BY <1>11, <3>1 DEF SessionInv
    <3> QED
      BY <1>2, <1>3, <1>8, <2>2, <3>2 DEF Excused
  <2> QED
    BY <2>1, <2>2
<1>12. ASSUME NEW d \in Calls, "rotate" \in Still(d)', Good(call[d].ref)'
       PROVE  token'[call'[d].ref].basis = call'[d].basis
  <2>1. CASE d = c
    BY <1>1, <1>2, <1>4, <1>5, <1>12, <2>1
  <2>2. CASE d # c
    BY <1>2, <1>3, <1>12, <2>2 DEF SessionInv, Good
  <2> QED
    BY <2>1, <2>2
<1>13. ASSUME NEW d \in Calls, call'[d].kind = "change", "issue" \in Still(d)'
       PROVE  call'[d].basis = call'[d].serial
  <2>1. CASE d = c
    BY <1>1, <1>13, <2>1 DEF BasisOf
  <2>2. CASE d # c
    BY <1>3, <1>13, <2>2 DEF SessionInv
  <2> QED
    BY <2>1, <2>2
<1> QED
  BY <1>2, <1>9, <1>10, <1>11, <1>12, <1>13 DEF SessionInv

LEMMA SessionsStatement ==
  ASSUME Typed, UserInv, CallInv, TokenInv, OrderInv, SessionInv, NEW c \in Calls, Statement(c)
  PROVE  SessionInv'
<1> DEFINE h == Head(call[c].todo)
<1>1. CallsTyped /\ TablesTyped /\ RowTyped /\ call[c] \in Records /\ Alike(call[c], call[c])
  BY DEF Typed, CallsTyped, Alike
<1>2. Moves(c)
  BY StatementTyped DEF Runs, Rotates, Issues, Answers
<1>3. /\ Ending(c) => h = "revoke"
      /\ h = "revoke" /\ EndsSessions(c) => Ending(c)
      /\ "create" \in Still(c) => h = "create"
      /\ "rotate" \in Still(c) => h = "rotate"
      /\ h \in Still(c)
      /\ h = "issue" => Sending(c)
      /\ Sending(c)' => Sending(c) \/ h \in {"create", "rotate", "setPassword"}
      /\ Ends(c) => ~Sending(c)'
  BY <1>2, SessionView DEF Ending, Sending
<1>4. /\ Finish(c) => Keeps(c) /\ Ends(c)
      /\ Proceed(c, call[c]) => Keeps(c)
  BY <1>1, <1>2, KeepsBasis, FinishMoves DEF Moves
<1>5. ASSUME Keeps(c), UNCHANGED <<account, password, token, stored, jwt>>, slipped \subseteq slipped',
             ~Ending(c), h \in {"create", "rotate"} => Ends(c),
             h = "setPassword" => ~Sending(c)' \/ call[c].serial \in slipped'
      PROVE  SessionInv'
  <2>1. Passes(c)
    BY <1>2, <1>3, <1>5 DEF Passes, Good
  <2> QED
    BY <2>1, SessionsPass
<1>6. ASSUME Keeps(c), UNCHANGED <<account, password, token, stored, jwt, slipped>>,
             h \notin {"create", "rotate", "setPassword", "revoke"}
      PROVE  SessionInv'
  BY <1>3, <1>5, <1>6
<1>7. CASE Create(c)
  <2>1. CASE account = "none"
    BY <1>7, <2>1, SessionsCreate
  <2>2. CASE account # "none"
    <3>1. Finish(c) /\ UNCHANGED <<account, password, token, stored, jwt, slipped>> /\ h = "create"
      BY <1>7, <2>2 DEF Create, At, tableVars, webVars, pastVars
    <3> QED
      BY <1>3, <1>4, <1>5, <3>1
  <2> QED
    BY <2>1, <2>2
<1>8. CASE Retire(c) \/ Mail(c) \/ Mark(c) \/ Judge(c)
  <2>1. /\ UNCHANGED <<account, password, token, stored, jwt, slipped>>
        /\ h \in {"retire", "mail", "mark", "judge"} /\ (Finish(c) \/ Proceed(c, call[c]))
    BY <1>8 DEF Retire, Mail, Mark, Judge, At, rowVars, tableVars, webVars, pastVars
  <2> QED
    BY <1>4, <1>6, <2>1
<1>9. CASE Write(c) \/ Ban(c) \/ Release(c)
  <2>1. /\ UNCHANGED <<account, password, token, stored, jwt, slipped>>
        /\ h \in {"write", "ban", "release"} /\ Proceed(c, call[c])
    BY <1>9 DEF Write, Ban, Release, At, tableVars, webVars, pastVars
  <2> QED
    BY <1>4, <1>6, <2>1
<1>10. ASSUME NEW u \in Users \cup {NoUser}, Proceed(c, [call[c] EXCEPT !.user = u]) PROVE Keeps(c)
  <2> DEFINE known == [call[c] EXCEPT !.user = u]
  <2>1. known \in Records /\ Alike(known, call[c]) /\ known.basis = call[c].basis
    BY <1>1, RecordsKnow, ConstantsOK DEF Records, CallsTyped
  <2> HIDE DEF known
  <2>2. Proceed(c, known)
    BY <1>10 DEF known
  <2> QED
    BY <1>2, <2>1, <2>2, KeepsBasis DEF Moves
<1>11. CASE Recheck(c) \/ Load(c)
  <2>1. /\ UNCHANGED <<account, password, token, stored, jwt, slipped>>
        /\ h \in {"recheck", "load"}
        /\ Finish(c) \/ Proceed(c, [call[c] EXCEPT !.user = UserRow])
    BY <1>11 DEF Recheck, Load, At, rowVars, tableVars, webVars, pastVars
  <2> QED
    BY <1>1, <1>4, <1>6, <1>10, <2>1, RowIsUser
<1>12. CASE Put(c)
  <2>1. /\ UNCHANGED <<account, password, token, stored, jwt, slipped>> /\ h = "put"
        /\ Finish(c) \/ Proceed(c, [call[c] EXCEPT !.user = Kept(call[c].kind, call[c].user)])
    BY <1>12 DEF Put, At, rowVars, tableVars, pastVars
  <2>2. Kept(call[c].kind, call[c].user) \in Users \cup {NoUser}
    BY <1>1 DEF Kept, Records
  <2> QED
    BY <1>4, <1>6, <1>10, <2>1, <2>2
<1>13. CASE Forget(c)
  <2>1. /\ UNCHANGED <<account, password, token, stored, jwt, slipped>> /\ h = "forget"
        /\ call' = [d \in Calls |-> IF d = c THEN NoCall
                    ELSE IF At(d, "put") THEN [call[d] EXCEPT !.user.late = TRUE] ELSE call[d]]
    BY <1>13 DEF Forget, At, rowVars, tableVars, pastVars
  <2>2. \A d \in Calls \ {c} : call'[d].basis = call[d].basis
    BY <1>1, <2>1 DEF CallsTyped, Records
  <2>3. Keeps(c)
    BY <2>1, <2>2 DEF Keeps, Ends
  <2> QED
    BY <1>6, <2>1, <2>3
<1>14. CASE Lose(c)
  <2>1. /\ UNCHANGED <<account, password, token, stored, jwt, slipped>> /\ h = "answer" /\ Finish(c)
    BY <1>14 DEF Lose, At, rowVars, tableVars, webVars
  <2> QED
    BY <1>4, <1>6, <2>1
<1>15. CASE Answer(c)
  <2>1. /\ UNCHANGED <<account, password, token, slipped>> /\ h = "answer" /\ Finish(c)
    BY <1>15 DEF Answer, At, rowVars, tableVars, pastVars
  <2>2. account # "none"
    <3>1. "answer" \in Still(c) /\ "create" \notin Still(c)
      BY <1>3, <2>1
    <3> QED
      BY <3>1 DEF SessionInv
  <2>3. Passes(c)
    BY <1>2, <1>3, <1>4, <2>1, <2>2 DEF Passes, Good
  <2> QED
    BY <2>3, SessionsPass
<1>16. CASE Issue(c)
  <2>1. /\ UNCHANGED <<account, password, stored, jwt, slipped>> /\ h = "issue" /\ Proceed(c, call[c])
        /\ \/ token' = token
           \/ account = "live" /\ token' = [token EXCEPT ![call[c].serial] =
                [status |-> "active", family |-> call[c].family, basis |-> call[c].basis]]
    BY <1>16 DEF Issue, At, rowVars, webVars, pastVars
  <2>2. ASSUME NEW t \in Serials, Good(t)'
        PROVE  \/ Good(t) /\ token'[t] = token[t]
               \/ /\ t = call[c].serial /\ token'[t].basis = call[c].basis
                  /\ account = "live" /\ Sending(c)
    <3>1. CASE token' = token
      BY <2>2, <3>1 DEF Good
    <3>2. CASE account = "live" /\ token' = [token EXCEPT ![call[c].serial] =
                 [status |-> "active", family |-> call[c].family, basis |-> call[c].basis]]
      BY <1>1, <1>3, <2>1, <2>2, <3>2 DEF Good, TablesTyped
    <3> QED
      BY <2>1, <3>1, <3>2
  <2>3. Passes(c)
    BY <1>2, <1>3, <1>4, <2>1, <2>2 DEF Passes
  <2> QED
    BY <2>3, SessionsPass
<1>17. CASE Rotate(c)
  <2> DEFINE old == call[c].ref
  <2>1. /\ UNCHANGED <<account, password, stored, jwt>> /\ h = "rotate" /\ old \in Serials
        /\ "rotate" \in Still(c)
    BY <1>1, <1>3, <1>17 DEF Rotate, At, rowVars, webVars, Records
  <2>2. CASE token[old].status = "active"
    <3>1. /\ token' = [token EXCEPT ![old].status = "revoked"] /\ Proceed(c, call[c])
          /\ slipped' = slipped \cup Heir(c)
      BY <1>17, <2>2 DEF Rotate
    <3>2. \A t \in Serials : Good(t)' => Good(t) /\ token'[t] = token[t]
      BY <1>1, <3>1 DEF Good, TablesTyped, Tokens
    <3>3. call[c].basis = password \/ call[c].serial \in slipped' \/ EndingBut(c)
      <4>1. Good(old) /\ token[old].basis = call[c].basis /\ Allowed(old)
        BY <2>1, <2>2 DEF SessionInv, Good
      <4>2. ~Ending(c)
        BY <1>3, <2>1
      <4> QED
        BY <3>1, <4>1, <4>2 DEF Allowed, EndingBut, Heir
    <3>4. Passes(c)
      BY <1>2, <1>3, <1>4, <2>1, <3>1, <3>2, <3>3 DEF Passes
    <3> QED
      BY <3>4, SessionsPass
  <2>3. CASE token[old].status # "active"
    <3>1. Finish(c) /\ token' = token /\ slipped' = slipped
      BY <1>17, <2>3 DEF Rotate
    <3> QED
      BY <1>3, <1>4, <1>5, <2>1, <3>1
  <2> QED
    BY <2>2, <2>3
<1>18. CASE Revoke(c)
  <2>1. /\ UNCHANGED <<account, password, stored, jwt>> /\ h = "revoke" /\ Proceed(c, call[c])
        /\ token' = [t \in Serials |-> NoToken] /\ slipped' = Outlive(c)
    BY <1>18 DEF Revoke, At, rowVars, webVars
  <2>2. \A t \in Serials : ~Good(t)'
    BY <2>1 DEF Good, NoToken
  <2>3. \A d \in Calls : call[d].serial \in slipped => call[d].serial \in slipped'
    BY <2>1 DEF Outlive
  <2>4. CASE EndsSessions(c)
    <3>1. \A d \in Issuing \ {c} : call[d].serial \in slipped'
      BY <2>1, <2>4 DEF Outlive, InFlight
    <3>2. Sweeps(c)
      BY <1>2, <1>3, <1>4, <2>1, <2>2, <2>3, <2>4, <3>1 DEF Sweeps
    <3> QED
      BY <3>2, SessionsSwept
  <2>5. CASE ~EndsSessions(c)
    <3>1. ~Ending(c)
      BY <2>5 DEF Ending
    <3>2. Passes(c)
      BY <1>2, <1>3, <1>4, <2>1, <2>2, <2>3, <3>1 DEF Passes
    <3> QED
      BY <3>2, SessionsPass
  <2> QED
    BY <2>4, <2>5
<1>19. CASE SetPassword(c)
  BY <1>19, SessionsNewPassword
<1>20. CASE Drop(c)
  BY <1>20, SessionsDropped
<1>21. CASE Fail(c)
  <2>1. /\ UNCHANGED <<account, password, token, stored, jwt>> /\ slipped \subseteq slipped'
        /\ IF h \in Essential THEN Finish(c) ELSE Proceed(c, call[c])
        /\ h = "revoke" /\ EndsSessions(c) =>
             {t \in Serials : token[t] # NoToken} \cup InFlight(c) \subseteq slipped'
        /\ h = "setPassword" /\ call[c].kind = "change" => call[c].serial \in slipped'
    BY <1>21 DEF Fail, rowVars, tableVars, webVars
  <2>2. Keeps(c) /\ (h \in {"create", "rotate"} => Ends(c))
    BY <1>4, <2>1 DEF Essential
  <2>3. CASE h = "revoke" /\ EndsSessions(c)
    <3>1. \A t \in Serials : Good(t)' => Good(t) /\ token'[t] = token[t] /\ t \in slipped'
      BY <2>1, <2>3 DEF Good, NoToken
    <3>2. \A d \in Issuing \ {c} : call[d].serial \in slipped'
      BY <2>1, <2>3 DEF InFlight
    <3>3. Sweeps(c)
      BY <1>2, <1>3, <2>1, <2>2, <2>3, <3>1, <3>2 DEF Sweeps
    <3> QED
      BY <3>3, SessionsSwept
  <2>4. CASE h = "setPassword"
    <3>1. Sending(c)' => call[c].kind = "change"
      <4> SUFFICES ASSUME Sending(c)' PROVE call[c].kind = "change"
        OBVIOUS
      <4>1. "issue" \in Still(c) /\ "setPassword" \in Still(c)
        BY <1>2, <1>3, <2>4, SessionView DEF Sending
      <4>2. Ordered(call[c].kind, call[c].todo)
        BY DEF OrderInv
      <4> QED
        BY <4>1, <4>2 DEF Ordered, Still, Range
    <3>2. ~Ending(c)
      BY <1>3, <2>4
    <3> QED
      BY <1>5, <2>1, <2>2, <2>4, <3>1, <3>2
  <2>5. CASE h # "setPassword" /\ ~(h = "revoke" /\ EndsSessions(c))
    <3>1. ~Ending(c)
      BY <1>3, <2>5 DEF Ending
    <3> QED
      BY <1>5, <2>1, <2>2, <2>5, <3>1
  <2> QED
    BY <2>3, <2>4, <2>5
<1> QED
  BY <1>7, <1>8, <1>9, <1>11, <1>12, <1>13, <1>14, <1>15, <1>16, <1>17, <1>18, <1>19, <1>20, <1>21
  DEF Statement

LEMMA InitSessions == Init => OrderInv /\ SessionInv
<1> SUFFICES ASSUME Init PROVE OrderInv /\ SessionInv
  OBVIOUS
<1>1. \A c \in Calls : call[c] = NoCall /\ Still(c) = {}
  BY DEF Init, NoCall, Still, Range
<1>2. OrderInv
  BY <1>1 DEF OrderInv, Ordered, NoCall
<1>3. \A t \in Serials : Good(t) => account = "live" /\ token[t].basis = password
  BY DEF Init, Good, NoToken
<1>4. account = "none" => \A b \in Browsers : ~jwt[b] /\ stored[b] = Nothing
  BY DEF Init
<1>5. SessionInv
  BY <1>1, <1>3, <1>4 DEF SessionInv, Allowed, Sending
<1> QED
  BY <1>2, <1>5

\* A step outside the requests makes no token good.
LEMMA SessionsStay ==
  ASSUME Typed, SessionInv, UNCHANGED <<call, account, password, stored, jwt, slipped>>,
         \A t \in Serials : Good(t)' => Good(t) /\ token'[t] = token[t]
  PROVE  SessionInv'
<1>1. \A c \in Calls : Still(c)' = Still(c) /\ Ending(c)' = Ending(c) /\ Sending(c)' = Sending(c)
  BY DEF Still, Ending, Sending, EndsSessions
<1>2. \A c \in Calls : EndingBut(c)' = EndingBut(c)
  BY <1>1 DEF EndingBut
<1>3. \A c \in Calls : Excused(c)' = Excused(c)
  BY <1>2 DEF Excused
<1>4. \A t \in Serials : Good(t)' => Good(t) /\ Allowed(t)'
  BY <1>1 DEF Allowed, SessionInv
<1>5. ASSUME NEW c \in Calls, "rotate" \in Still(c), Good(call[c].ref)'
      PROVE  token'[call[c].ref].basis = call[c].basis
  <2>1. call[c].ref \in Serials
    BY DEF Typed, CallsTyped, Records
  <2>2. token'[call[c].ref].status = "active"
    BY <1>5 DEF Good
  <2>3. Good(call[c].ref) /\ token'[call[c].ref] = token[call[c].ref]
    BY <2>1, <2>2 DEF Good
  <2> QED
    BY <1>5, <2>3 DEF SessionInv
<1> QED
  BY <1>1, <1>3, <1>4, <1>5 DEF SessionInv

\* Whatever requests meet or fail: a good token stems from today's password, unless a request
\* that has set the password has still to end the sessions, or the token slipped through, as
\* it was being inserted when they ended or succeeds one that was.
THEOREM SessionsFollowPassword == Spec => []OldPasswordSessionsEnd
<1> DEFINE Inv == OrderInv /\ SessionInv
<1>1. Init => Inv
  BY InitSessions
<1>2. TokensInv /\ Inv /\ [Next]_vars => Inv'
  <2> SUFFICES ASSUME TokensInv, Inv, [Next]_vars PROVE Inv'
    OBVIOUS
  <2>1. Typed /\ UserInv /\ CallInv /\ TokenInv /\ StepKinds
    BY NextTyped DEF TokensInv
  <2>2. OrderInv'
    BY <2>1, OrderNext
  <2>3. ASSUME NEW c \in Calls, Request(c) PROVE SessionInv'
    BY <2>1, <2>3, RequestTyped, SessionsBegin
  <2>4. ASSUME NEW c \in Calls, Statement(c) PROVE SessionInv'
    BY <2>1, <2>4, SessionsStatement
  <2>5. ASSUME NEW t \in Serials, GraceEnds(t) PROVE SessionInv'
    <3>1. UNCHANGED <<call, account, password, stored, jwt, slipped>>
      BY <2>5 DEF GraceEnds, rowVars, webVars, pastVars
    <3>2. \A u \in Serials : Good(u)' => Good(u) /\ token'[u] = token[u]
      BY <2>1, <2>5 DEF GraceEnds, Good, Typed, TablesTyped, Tokens
    <3> QED
      BY <2>1, <3>1, <3>2, SessionsStay
  <2>6. ASSUME GrowOld \/ UNCHANGED vars PROVE SessionInv'
    <3>1. UNCHANGED <<call, account, password, stored, jwt, slipped, token>>
      BY <2>6 DEF GrowOld, vars, rowVars, tableVars, webVars, pastVars
    <3> QED
      BY <2>1, <3>1, SessionsStay DEF Good
  <2> QED
    BY <2>2, <2>3, <2>4, <2>5, <2>6 DEF Next, TimePasses, Rest
<1>3. Inv => OldPasswordSessionsEnd
  BY DEF SessionInv, Allowed, Ending, Good, Active, OldPasswordSessionsEnd
<1> HIDE DEF Inv
<1> QED
  BY <1>1, <1>2, <1>3, TokensInvariant, PTL DEF Spec
=============================================================================
