------------------------------ MODULE Accounts ------------------------------
(***************************************************************************)
(* ONE account: its row in users, its refresh tokens, its reset and        *)
(* verification links, the user cache of the middleware, and the requests  *)
(* of handlers/auth.go and of the admin's user page that touch them.       *)
(*                                                                         *)
(* A request is the list of the statements it still has to run: every      *)
(* statement is a step of its own, as none of these handlers opens a       *)
(* transaction, and every one may fail; most handlers ignore that and go   *)
(* on.  A browser keeps one refresh token and one access token, whatever   *)
(* the number of its tabs that send requests.                              *)
(*                                                                         *)
(* The serial number of a request names what it creates: a token, a link,  *)
(* a password.  Left out: input validation, rate limits and captchas,      *)
(* expiry of tokens after 30 days and of links, the session in Redis, and  *)
(* passwords that do not match.  That an access token lives for 15 minutes *)
(* only means that some requests are not made.                             *)
(***************************************************************************)
EXTENDS Integers, Sequences, Functions

CONSTANTS Browsers, Calls,
          Kinds,        \* the requests that are made
          MaxRequests   \* bound on the requests over a behaviour

VARIABLES
    account,    \* "none" before the signup, "live", "gone"
    password,   \* the request that set users.password_hash
    banned, verified, held, profile,   \* columns of the row
    young,      \* the account is younger than the verification hold
    token,      \* refresh_tokens
    mails, resets,   \* email_verifications and password_resets
    cache,      \* the middleware's copy of the user, NoUser: none
    stored, jwt,     \* per browser: the refresh token it keeps; whether it has an access token
    call, requests,  \* the requests under way; how many there have been
    slipped,    \* history: tokens a password change could not reach
    lost,       \* history: a browser missed the answer of a rotation
    alarmed     \* history: reuse detection revoked everything

rowVars   == <<account, password, banned, verified, held, profile, young>>
tableVars == <<token, mails, resets>>
webVars   == <<cache, stored, jwt>>
pastVars  == <<slipped, lost, alarmed>>
vars == <<rowVars, tableVars, webVars, call, requests, pastVars>>

Serials  == 0..MaxRequests
Nothing  == -1   \* what a browser that never logged in keeps
Fields   == {"bio", "genres"}
Profiles == [Fields -> Serials]
NoUser   == [banned |-> FALSE, verified |-> FALSE, profile |-> [f \in Fields |-> Nothing], late |-> FALSE]
Users    == [banned: BOOLEAN, verified: BOOLEAN, profile: Profiles, late: BOOLEAN]
NoToken  == [status |-> "none", family |-> 0, basis |-> 0]

\* The statements of each handler, in order: those without a user, ...
SignupSteps    == <<"create", "mail", "issue", "answer">>
LoginSteps     == <<"issue", "answer">>
RefreshToken   == <<"rotate", "recheck", "issue", "answer">>
ForgotPassword == <<"retire", "mail">>
ResetPassword  == <<"mark", "setPassword", "revoke">>
VerifyEmail    == <<"mark", "judge">>
\* ... those with one, ...
Logout             == <<"revoke">>
ChangePassword     == <<"setPassword", "revoke", "issue", "answer">>
DeleteAccount      == <<"revoke", "drop">>
UpdateProfile      == <<"write">>
ResendVerification == <<"retire", "mail">>
\* ... and the admin's: a ban, a verification, a deletion.
UpdateBanned   == <<"ban", "forget">>
UpdateVerified == <<"release", "forget">>
DeleteUser     == <<"drop">>

Plan == [signup  |-> SignupSteps,    login  |-> LoginSteps,     refresh |-> RefreshToken,
         logout  |-> Logout,         change |-> ChangePassword, delete  |-> DeleteAccount,
         profile |-> UpdateProfile,  resend |-> ResendVerification,
         forgot  |-> ForgotPassword, reset  |-> ResetPassword,  verify  |-> VerifyEmail,
         ban     |-> UpdateBanned, release |-> UpdateVerified, admindelete |-> DeleteUser]
NeedsUser == {"logout", "change", "delete", "profile", "resend"}

ASSUME ConstantsOK == Kinds \subseteq DOMAIN Plan /\ MaxRequests \in Nat

Steps == {"load", "put"} \cup UNION {{Plan[k][i] : i \in DOMAIN Plan[k]} : k \in DOMAIN Plan}
\* Steps in memory, which cannot fail, and those whose error ends the request (after that
\* of "load" it goes on for a user without an id, whose statements touch no row).
InMemory  == {"put", "forget"}
Essential == {"create", "rotate", "load", "drop", "judge"}

NoCall == [kind |-> "none", todo |-> <<>>, by |-> 0, ref |-> 0, field |-> "bio", serial |-> 0,
           family |-> 0, basis |-> 0, user |-> NoUser]

TypeOK ==
    /\ account \in {"none", "live", "gone"} /\ password \in Serials
    /\ banned \in BOOLEAN /\ verified \in BOOLEAN /\ held \in BOOLEAN
    /\ profile \in Profiles /\ young \in BOOLEAN
    /\ token \in [Serials -> [status: {"none", "active", "revoked", "stale"},
                              family: Serials, basis: Serials]]
    /\ mails \in [Serials -> {"none", "live", "used"}]
    /\ resets \in [Serials -> {"none", "live", "used"}]
    /\ cache \in Users \cup {NoUser}
    /\ stored \in [Browsers -> Serials \cup {Nothing}] /\ jwt \in [Browsers -> BOOLEAN]
    /\ call \in [Calls -> [kind: DOMAIN Plan \cup {"none"}, todo: Seq(Steps),
                           by: Browsers \cup {0}, ref: Serials, field: Fields,
                           serial: Serials, family: Serials, basis: Serials,
                           user: Users \cup {NoUser}]]
    /\ requests \in Serials
    /\ slipped \subseteq Serials /\ lost \in BOOLEAN /\ alarmed \in BOOLEAN

\* Nobody has signed up yet, or an account that one browser is logged in to (token 0) and
\* whose verification mail (link 0) has not been used.
Init ==
    /\ account \in {"none", "live"}
    /\ password = 0 /\ banned = FALSE /\ verified = FALSE /\ held = FALSE
    /\ profile = [f \in Fields |-> 0] /\ young = TRUE
    /\ token = [t \in Serials |-> IF t = 0 /\ account = "live"
                                  THEN [NoToken EXCEPT !.status = "active"] ELSE NoToken]
    /\ mails = [k \in Serials |-> IF k = 0 /\ account = "live" THEN "live" ELSE "none"]
    /\ resets = [k \in Serials |-> "none"]
    /\ cache = NoUser
    /\ \E b \in Browsers : jwt = [x \in Browsers |-> x = b /\ account = "live"]
    /\ stored = [b \in Browsers |-> IF jwt[b] THEN 0 ELSE Nothing]
    /\ call = [c \in Calls |-> NoCall] /\ requests = 0
    /\ slipped = {} /\ lost = FALSE /\ alarmed = FALSE

-----------------------------------------------------------------------------
At(c, step) == call[c].todo # <<>> /\ Head(call[c].todo) = step
Finish(c) == call' = [call EXCEPT ![c] = NoCall] /\ UNCHANGED requests
\* The request goes on with what it knows now.
Proceed(c, known) ==
    /\ call' = [call EXCEPT ![c] = IF Len(call[c].todo) = 1 THEN NoCall
                                   ELSE [known EXCEPT !.todo = Tail(@)]]
    /\ UNCHANGED requests
Begin(c, kind, request) ==
    /\ kind \in Kinds /\ call[c] = NoCall /\ requests < MaxRequests
    /\ requests' = requests + 1
    /\ call' = [call EXCEPT ![c] = [request EXCEPT !.kind = kind, !.serial = requests + 1]]

\* Mutant: a field that is not sent is not filled in.
KeepsNothing(kind, user) == NoUser

\* What a request still needs of its user.
Kept(kind, user) == IF kind \in {"profile", "resend"} THEN user ELSE NoUser
UserRow == [banned |-> banned, verified |-> verified, profile |-> profile, late |-> FALSE]
Still(c) == Range(call[c].todo)
\* Requests past their checks that still have a token to insert.
Issuing == {c \in Calls : "issue" \in Still(c) /\ {"rotate", "setPassword"} \cap Still(c) = {}}

-----------------------------------------------------------------------------
(* Requests *)

Signup(c, b) ==
    /\ account = "none"
    /\ Begin(c, "signup", [NoCall EXCEPT !.todo = SignupSteps, !.by = b, !.family = requests + 1])
    /\ UNCHANGED <<rowVars, tableVars, webVars, pastVars>>

\* Reads the user and compares the password that was set last.
Login(c, b) ==
    /\ account = "live" /\ ~banned
    /\ Begin(c, "login", [NoCall EXCEPT !.todo = LoginSteps, !.by = b,
                                        !.family = requests + 1, !.basis = password])
    /\ UNCHANGED <<rowVars, tableVars, webVars, pastVars>>

\* A token rotated more than the grace period ago is a replay: every token goes.  One
\* rotated just now, or unknown, is refused.
Refresh(c, b) ==
    /\ stored[b] # Nothing /\ token[stored[b]].status \in {"active", "stale"}
    /\ LET t == token[stored[b]]  replay == t.status = "stale" IN
         /\ Begin(c, "refresh", [NoCall EXCEPT !.todo = IF replay THEN Logout ELSE RefreshToken,
                                              !.by = b, !.ref = stored[b],
                                              !.family = t.family, !.basis = t.basis])
         /\ alarmed' = (alarmed \/ replay)
    /\ UNCHANGED <<rowVars, tableVars, webVars, slipped, lost>>

\* AuthMiddleware: the cached user, unless its 20 seconds are over, or else the row, which
\* is then cached; a banned user is nobody.
Authenticated(c, b, kind, f) ==
    /\ kind \in NeedsUser /\ jwt[b]
    /\ cache' \in {cache, NoUser} /\ ~cache'.banned
    /\ LET n == requests + 1
           known == [NoCall EXCEPT !.by = b, !.field = f, !.user = Kept(kind, cache')]
           request == IF kind = "change" THEN [known EXCEPT !.family = n, !.basis = n] ELSE known IN
         Begin(c, kind, [request EXCEPT !.todo =
                  (IF cache' = NoUser THEN <<"load", "put">> ELSE <<>>) \o Plan[kind]])
    /\ UNCHANGED <<rowVars, tableVars, stored, jwt, pastVars>>

Forgot(c) ==
    /\ account = "live"
    /\ Begin(c, "forgot", [NoCall EXCEPT !.todo = ForgotPassword])
    /\ UNCHANGED <<rowVars, tableVars, webVars, pastVars>>

FollowLink(c, kind, k) ==
    /\ kind \in {"reset", "verify"}
    /\ (IF kind = "reset" THEN resets ELSE mails)[k] = "live"
    /\ Begin(c, kind, [NoCall EXCEPT !.todo = Plan[kind], !.ref = k])
    /\ UNCHANGED <<rowVars, tableVars, webVars, pastVars>>

AdminRequest(c, kind) ==
    /\ kind \in {"ban", "release", "admindelete"} /\ account # "none"
    /\ Begin(c, kind, [NoCall EXCEPT !.todo = Plan[kind]])
    /\ UNCHANGED <<rowVars, tableVars, webVars, pastVars>>

-----------------------------------------------------------------------------
(* Statements *)

\* The address is unique: the second of two signups ends here.
Create(c) ==
    /\ At(c, "create")
    /\ \/ /\ account = "none" /\ account' = "live" /\ password' = call[c].serial
          /\ Proceed(c, [call[c] EXCEPT !.basis = call[c].serial])
       \/ /\ account # "none" /\ Finish(c) /\ UNCHANGED <<account, password>>
    /\ UNCHANGED <<banned, verified, held, profile, young, tableVars, webVars, pastVars>>

\* CreateEmailVerification and CreatePasswordReset: the older links are used up first.
Retire(c) ==
    /\ At(c, "retire")
    /\ LET UsedUp(links) == [k \in Serials |-> IF links[k] = "live" THEN "used" ELSE links[k]] IN
         IF call[c].kind = "forgot" THEN resets' = UsedUp(resets) /\ Proceed(c, call[c]) /\ UNCHANGED mails
         ELSE IF call[c].user.verified THEN Finish(c) /\ UNCHANGED <<mails, resets>>
         ELSE mails' = UsedUp(mails) /\ Proceed(c, call[c]) /\ UNCHANGED resets
    /\ UNCHANGED <<rowVars, token, webVars, pastVars>>

Mail(c) ==
    /\ At(c, "mail") /\ Proceed(c, call[c])
    /\ LET With(links) == IF account = "live" THEN [links EXCEPT ![call[c].serial] = "live"] ELSE links IN
         IF call[c].kind = "forgot" THEN resets' = With(resets) /\ UNCHANGED mails
                                    ELSE mails' = With(mails) /\ UNCHANGED resets
    /\ UNCHANGED <<rowVars, token, webVars, pastVars>>

Mark(c) ==
    /\ At(c, "mark") /\ Proceed(c, call[c])
    /\ LET Used(links) == IF links[call[c].ref] = "live" THEN [links EXCEPT ![call[c].ref] = "used"] ELSE links IN
         IF call[c].kind = "reset" THEN resets' = Used(resets) /\ UNCHANGED mails
                                   ELSE mails' = Used(mails) /\ UNCHANGED resets
    /\ UNCHANGED <<rowVars, token, webVars, pastVars>>

\* VerifyEmail: a click too soon after the signup parks the account.
Judge(c) ==
    /\ At(c, "judge") /\ Finish(c)
    /\ IF account # "live" THEN UNCHANGED <<verified, held>>
       ELSE IF young THEN held' = TRUE /\ UNCHANGED verified
       ELSE verified' = TRUE /\ held' = FALSE
    /\ UNCHANGED <<account, password, banned, profile, young, tableVars, webVars, pastVars>>

\* What replaces a token that slipped through has slipped through.
Heir(c) == IF call[c].ref \in slipped THEN {call[c].serial} ELSE {}

\* Mutant: revokes whatever the token's status (RevokeRefreshToken).
RotatesAnyway(c) ==
    /\ At(c, "rotate")
    /\ token' = [token EXCEPT ![call[c].ref].status = "revoked"] /\ Proceed(c, call[c])
    /\ slipped' = slipped \cup Heir(c)
    /\ UNCHANGED <<rowVars, mails, resets, webVars, lost, alarmed>>

\* RevokeRefreshTokenIfActive: one of any number of refreshes wins.
Rotate(c) ==
    /\ At(c, "rotate")
    /\ IF token[call[c].ref].status = "active"
       THEN /\ token' = [token EXCEPT ![call[c].ref].status = "revoked"] /\ Proceed(c, call[c])
            /\ slipped' = slipped \cup Heir(c)
       ELSE Finish(c) /\ UNCHANGED <<token, slipped>>
    /\ UNCHANGED <<rowVars, mails, resets, webVars, lost, alarmed>>

\* The user is read after the rotation: deleted or banned, the browser keeps a spent token.
Recheck(c) ==
    /\ At(c, "recheck")
    /\ IF account = "live" /\ ~banned THEN Proceed(c, [call[c] EXCEPT !.user = UserRow]) /\ UNCHANGED lost
                                      ELSE Finish(c) /\ lost' = TRUE
    /\ UNCHANGED <<rowVars, tableVars, webVars, slipped, alarmed>>

\* CreateRefreshToken, whose error is ignored; a refresh that could not read the user
\* inserts for no user, which the foreign key refuses.
Issue(c) ==
    /\ At(c, "issue") /\ Proceed(c, call[c])
    /\ LET r == call[c] IN
         IF account = "live" /\ ~(r.kind = "refresh" /\ r.user = NoUser)
         THEN token' = [token EXCEPT ![r.serial] = [status |-> "active", family |-> r.family, basis |-> r.basis]]
         ELSE UNCHANGED token
    /\ UNCHANGED <<rowVars, mails, resets, webVars, pastVars>>

Answer(c) ==
    /\ At(c, "answer") /\ Finish(c)
    /\ stored' = [stored EXCEPT ![call[c].by] = call[c].serial]
    /\ jwt' = [jwt EXCEPT ![call[c].by] = call[c].kind # "refresh" \/ call[c].user # NoUser]
    /\ UNCHANGED <<rowVars, tableVars, cache, pastVars>>

EndsSessions(c) == call[c].kind \in {"change", "reset"}
InFlight(c) == {call[d].serial : d \in Issuing \ {c}}
\* Tokens that this deletion cannot reach and that stem from an older password.
Outlive(c) == (slipped \cap {call[d].serial : d \in Calls})
                \cup (IF EndsSessions(c) THEN InFlight(c) ELSE {})

\* Mutant: deletes all but the browser's own token.
RevokesOthers(c) ==
    /\ At(c, "revoke") /\ Proceed(c, call[c])
    /\ token' = [t \in Serials |-> IF \E b \in Browsers : b = call[c].by /\ stored[b] = t
                                   THEN token[t] ELSE NoToken]
    /\ slipped' = Outlive(c)
    /\ UNCHANGED <<rowVars, mails, resets, webVars, lost, alarmed>>

\* Mutant: marks the rows as revoked instead of deleting them.
MarksRevoked(c) ==
    /\ At(c, "revoke") /\ Proceed(c, call[c])
    /\ token' = [t \in Serials |-> IF token[t].status = "active" THEN [token[t] EXCEPT !.status = "revoked"]
                                                                ELSE token[t]]
    /\ slipped' = Outlive(c)
    /\ UNCHANGED <<rowVars, mails, resets, webVars, lost, alarmed>>

\* RevokeAllUserRefreshTokens deletes the rows, so that none of them looks rotated.
Revoke(c) ==
    /\ At(c, "revoke") /\ Proceed(c, call[c])
    /\ token' = [t \in Serials |-> NoToken]
    /\ slipped' = Outlive(c)
    /\ UNCHANGED <<rowVars, mails, resets, webVars, lost, alarmed>>

SetPassword(c) ==
    /\ At(c, "setPassword") /\ Proceed(c, call[c])
    /\ password' = IF account = "live" THEN call[c].serial ELSE password
    /\ UNCHANGED <<account, banned, verified, held, profile, young, tableVars, webVars, pastVars>>

\* Tokens and links go with the row.
Drop(c) ==
    /\ At(c, "drop") /\ Finish(c)
    /\ account' = "gone" /\ password' = 0
    /\ banned' = FALSE /\ verified' = FALSE /\ held' = FALSE /\ profile' = [f \in Fields |-> 0]
    /\ token' = [t \in Serials |-> NoToken]
    /\ mails' = [k \in Serials |-> "none"] /\ resets' = [k \in Serials |-> "none"]
    /\ slipped' = {}
    /\ UNCHANGED <<young, webVars, lost, alarmed>>

\* UpdateProfile writes every field: the one it edits, the others as the request's user has them.
Write(c) ==
    /\ At(c, "write") /\ Proceed(c, call[c])
    /\ profile' = IF account = "live" THEN [call[c].user.profile EXCEPT ![call[c].field] = call[c].serial]
                                      ELSE profile
    /\ UNCHANGED <<account, password, banned, verified, held, young, tableVars, webVars, pastVars>>

\* The admin's page: a ban or its end; a verification, which ends a hold, or its end.
Ban(c) ==
    /\ At(c, "ban") /\ Proceed(c, call[c])
    /\ banned' = (~banned /\ account = "live")
    /\ UNCHANGED <<account, password, verified, held, profile, young, tableVars, webVars, pastVars>>
Release(c) ==
    /\ At(c, "release") /\ Proceed(c, call[c])
    /\ verified' \in (IF account = "live" THEN BOOLEAN ELSE {verified})
    /\ held' = (held /\ ~(account = "live" /\ verified'))
    /\ UNCHANGED <<account, password, banned, profile, young, tableVars, webVars, pastVars>>

\* Mutant: the middleware's copy stays.
KeepsCache(c) ==
    /\ At(c, "forget") /\ Finish(c)
    /\ UNCHANGED <<rowVars, tableVars, webVars, pastVars>>

\* InvalidateCachedUser.  A request that has read the row but not cached it yet is not reached.
Forget(c) ==
    /\ At(c, "forget")
    /\ cache' = NoUser
    /\ call' = [d \in Calls |-> IF d = c THEN NoCall
                                ELSE IF At(d, "put") THEN [call[d] EXCEPT !.user.late = TRUE] ELSE call[d]]
    /\ UNCHANGED <<rowVars, tableVars, stored, jwt, requests, pastVars>>

\* AuthMiddleware on a cache miss; a banned user's row is cached too.
Load(c) ==
    /\ At(c, "load")
    /\ IF account = "live" THEN Proceed(c, [call[c] EXCEPT !.user = UserRow]) ELSE Finish(c)
    /\ UNCHANGED <<rowVars, tableVars, webVars, pastVars>>
Put(c) ==
    /\ At(c, "put") /\ cache' = call[c].user
    /\ IF call[c].user.banned THEN Finish(c) ELSE Proceed(c, [call[c] EXCEPT !.user = Kept(call[c].kind, @)])
    /\ UNCHANGED <<rowVars, tableVars, stored, jwt, pastVars>>

-----------------------------------------------------------------------------
(* Failures and the passing of time *)

\* A statement fails (a lost connection, a request the browser gave up).
Fail(c) ==
    /\ call[c].todo # <<>>
    /\ LET step == Head(call[c].todo) IN
         /\ step \notin InMemory \cup {"answer"}
         /\ IF step \in Essential THEN Finish(c) ELSE Proceed(c, call[c])
         /\ slipped' = slipped \cup
              (IF step = "revoke" /\ EndsSessions(c)
                 THEN {t \in Serials : token[t] # NoToken} \cup InFlight(c)
               ELSE IF step = "setPassword" /\ call[c].kind = "change" THEN {call[c].serial}
               ELSE {})
    /\ UNCHANGED <<rowVars, tableVars, webVars, lost, alarmed>>

\* The browser never sees the answer; after a rotation it is left with a spent token.
Lose(c) ==
    /\ At(c, "answer") /\ Finish(c)
    /\ lost' = (lost \/ call[c].kind = "refresh")
    /\ UNCHANGED <<rowVars, tableVars, webVars, slipped, alarmed>>

\* 15 seconds after its rotation.  A response has no longer than that (WriteTimeout in
\* main.go), so no refresh that presents the token is still under way.
GraceEnds(t) ==
    /\ token[t].status = "revoked"
    /\ \A c \in Calls : ~(call[c].kind = "refresh" /\ call[c].ref = t)
    /\ token' = [token EXCEPT ![t].status = "stale"]
    /\ UNCHANGED <<rowVars, mails, resets, webVars, call, requests, pastVars>>

\* Judge alone looks at the account's age.
GrowOld ==
    /\ young /\ (\E c \in Calls : At(c, "judge")) /\ young' = FALSE
    /\ UNCHANGED <<account, password, banned, verified, held, profile, tableVars, webVars, call, requests, pastVars>>

-----------------------------------------------------------------------------
Request(c) ==
    \/ \E b \in Browsers : Signup(c, b) \/ Login(c, b) \/ Refresh(c, b)
    \/ \E b \in Browsers, kind \in NeedsUser :
          \E f \in IF kind = "profile" THEN Fields ELSE {"bio"} : Authenticated(c, b, kind, f)
    \/ Forgot(c)
    \/ \E kind \in {"reset", "verify"}, k \in Serials : FollowLink(c, kind, k)
    \/ \E kind \in {"ban", "release", "admindelete"} : AdminRequest(c, kind)
Statement(c) ==
    \/ Create(c) \/ Retire(c) \/ Mail(c) \/ Mark(c) \/ Judge(c)
    \/ Rotate(c) \/ Recheck(c) \/ Issue(c) \/ Answer(c) \/ Revoke(c) \/ SetPassword(c)
    \/ Drop(c) \/ Write(c) \/ Ban(c) \/ Release(c) \/ Forget(c) \/ Load(c) \/ Put(c)
    \/ Fail(c) \/ Lose(c)
TimePasses ==
    \/ GrowOld
    \/ \E t \in Serials : GraceEnds(t)

\* The bound on the requests is reached and all of them are answered.
Rest == requests = MaxRequests /\ (\A c \in Calls : call[c] = NoCall) /\ UNCHANGED vars

Next == (\E c \in Calls : Request(c) \/ Statement(c)) \/ TimePasses \/ Rest
Spec == Init /\ [][Next]_vars

-----------------------------------------------------------------------------
(* Properties *)

Active == {t \in Serials : token[t].status = "active"}

\* Two refreshes with one token, from two tabs or from a copy of it, never leave two
\* sessions behind: at most one token of a login's chain is good (auth.go:416, the
\* conditional revoke).
FamiliesDoNotFork == \A s, t \in Active : s # t => token[s].family # token[t].family

\* A session that stems from an older password is one that the request which set the new one
\* has still to end, one that it failed to end, one whose token was being issued at that
\* very moment, or the successor of one (auth.go:653 and 838: no transaction spans the two
\* statements).
OldPasswordSessionsEnd ==
    \A t \in Active :
        \/ token[t].basis = password \/ t \in slipped
        \/ \E c \in Calls : EndsSessions(c) /\ "revoke" \in Still(c) /\ "setPassword" \notin Still(c)

\* Reuse detection throws out all sessions of a user only after a browser missed the
\* answer to a rotation: neither two tabs that refresh at once nor a device that comes
\* back after a password change or a logout set it off (auth.go:393, users.go:207).
AlarmOnlyAfterLoss == alarmed => lost

\* A ban ends the cached identity: the middleware serves an unbanned copy of a banned user
\* only before the admin's request ends, or because a request that had read the row by
\* then cached it afterwards, which the TTL bounds (jwt.go:110, admin.go:478).
BanStands ==
    banned /\ cache # NoUser /\ ~cache.banned =>
        cache.late \/ \E c \in Calls : At(c, "forget")

\* "Mutating endpoints call InvalidateCachedUser(uid) after writes so the next request sees
\* fresh data" (jwt.go:100): an edit of one field of the profile leaves the others alone.
ProfileEditsKept ==
    [][\A f \in Fields : profile'[f] # profile[f] =>
          \E c \in Calls : At(c, "write") /\ call[c].field = f]_vars

\* "The account stays unverified until an admin releases it" (users.go:88).
HoldStands == [][held /\ ~held' => \E c \in Calls : At(c, "release")]_vars
=============================================================================
