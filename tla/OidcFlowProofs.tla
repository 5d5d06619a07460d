----------------------------- MODULE OidcFlowProofs -----------------------------
(***************************************************************************)
(* What OidcFlow's runs check for two tabs of one browser, for any number  *)
(* of tabs, users, clients, redirect URIs and scopes.                      *)
(*                                                                         *)
(* The invariant is about one request at a time: what a tab's request may  *)
(* rely on at each step of its handler (Sound).  The rest of the system    *)
(* takes nothing of it back: clients only give redirect URIs up, users     *)
(* only allow more, and a login is only followed by a later one (Onward).  *)
(***************************************************************************)
EXTENDS OidcFlow, TLAPS

Owners == Users \cup {NoUser}
Flags == BOOLEAN
Kinds == Forms \cup {"blank"}
Shows == Forms \cup Ends \cup {"redirect"}
Orders == {"keep", "clear", "session"}
Pages == [kind : Kinds, p : Params, user : Owners, mfa : Int]
Requests == [step : Steps, sent : Sessions, user : Owners, mfa : Int, allow : Flags,
             show : Shows, set : Orders, trusted : Flags]
Consents == [user : Users, client : Clients, scope : SUBSET Scopes]

Typed ==
  /\ clock \in 0..MaxTime
  /\ registered \in [Clients -> SUBSET Uris]
  /\ consents \in [Users \X Clients -> SUBSET Scopes]
  /\ cookie \in Sessions
  /\ page \in [Tabs -> Pages]
  /\ req \in [Tabs -> Requests]
  /\ loggedIn \in [Users -> Int]
  /\ approved \subseteq Consents
  /\ mishaps \in 0..MaxMishaps

--------------------------------------------------------------------------------
(* The inductive invariant *)

\* Whose request it is, where the handler takes that for granted.
Owned(q, g) ==
  /\ q.step \in {"login", "totp", "validate"} => q.user \in Users
  /\ q.step = "reply" /\ q.show = "totp" => q.user \in Users
  /\ q.step \in {"consent", "recheck", "save", "create"} => q.sent.user \in Users
  /\ g.kind = "totp" => g.user \in Users

\* A session ends within its length of its user's last login.
Earned(s, logins) == s.user \in Users => s.exp <= logins[s.user] + SessionLength

\* A redirect URI that is still registered was so since the request was sent.
Checked(q, p, uris) ==
  /\ q.step \notin {"idle", "reply"} /\ p.uri \in uris[p.client] => q.trusted
  /\ q.step \in {"consent", "create", "save"} => q.trusted
  /\ q.step = "reply" /\ q.show \in {"code", "error"} => q.trusted

\* The user has allowed the client something, and each of the scopes.
Allowed(u, p, given) ==
  /\ \E a \in given : a.user = u /\ a.client = p.client
  /\ \A s \in p.scope : \E a \in given : a.user = u /\ a.client = p.client /\ s \in a.scope

Approval(u, p) == [user |-> u, client |-> p.client, scope |-> p.scope]

\* A posted consent is the user's, and so is what a code rests on.
Approved(q, p, given) ==
  /\ q.step \in {"posted", "recheck", "save"} /\ q.allow /\ q.sent.user \in Users
       => Approval(q.sent.user, p) \in given
  /\ q.step = "save" => q.allow
  /\ q.step = "create" => Allowed(q.sent.user, p, given)
  /\ q.step = "reply" /\ q.show = "code" => Allowed(q.sent.user, p, given)

Sound(q, g, uris, given, logins) ==
  Owned(q, g) /\ Earned(q.sent, logins) /\ Checked(q, g.p, uris) /\ Approved(q, g.p, given)

\* The auth service holds no consent that its user has not given.
Consented ==
  \A u \in Users, c \in Clients : \A s \in consents[<<u, c>>] :
    \E a \in approved : a.user = u /\ a.client = c /\ s \in a.scope

\* Nobody has logged in in the future, and the browser's cookie is earned.
Punctual == (\A u \in Users : loggedIn[u] <= clock) /\ Earned(cookie, loggedIn)

AllSound == \A t \in Tabs : Sound(req[t], page[t], registered, approved, loggedIn)

Secure == AllSound /\ Consented /\ Punctual

IInv == Typed /\ Secure

--------------------------------------------------------------------------------
(* The elements of the state *)

LEMMA BlankPage == Blank \in Pages /\ Blank.kind = "blank"
<1>1. PICK p \in Wishes : p = CHOOSE w \in Wishes : TRUE
  BY WishAssumption
<1>2. p \in Params
  BY WishAssumption DEF Params
<1>3. Blank = [kind |-> "blank", p |-> p, user |-> NoUser, mfa |-> 0]
  BY <1>1 DEF Blank
<1> QED
  BY <1>2, <1>3 DEF Pages, Kinds, Owners

LEMMA WishedParams == Wishes \subseteq Params
BY WishAssumption DEF Params

LEMMA NoSessionTyped == NoSession \in Sessions /\ NoSession.user = NoUser
BY DEF NoSession, Sessions

LEMMA IdleRequest ==
  /\ Idle \in Requests
  /\ Idle.step = "idle" /\ Idle.sent = NoSession /\ Idle.user = NoUser /\ Idle.mfa = 0
  /\ Idle.allow = FALSE /\ Idle.show = "blank" /\ Idle.set = "keep" /\ Idle.trusted = FALSE
<1>1. "idle" \in Steps /\ "blank" \in Shows /\ "keep" \in Orders /\ FALSE \in Flags /\ NoUser \in Owners
      /\ 0 \in Int
  BY DEF Steps, Shows, Ends, Orders, Flags, Owners
<1>2. Idle \in Requests
  BY <1>1, NoSessionTyped DEF Idle, Requests
<1> QED
  BY <1>2 DEF Idle

LEMMA RequestFields ==
  ASSUME NEW q \in Requests
  PROVE  /\ q.step \in Steps /\ q.sent \in Sessions /\ q.user \in Owners /\ q.mfa \in Int
         /\ q.allow \in Flags
         /\ q.show \in Shows /\ q.set \in Orders /\ q.trusted \in Flags
         /\ q.sent.user \in Owners /\ q.sent.exp \in Int
BY DEF Requests, Sessions, Owners

LEMMA PageFields ==
  ASSUME NEW g \in Pages
  PROVE  /\ g.kind \in Kinds /\ g.p \in Params /\ g.user \in Owners /\ g.mfa \in Int
         /\ g.p.client \in Clients /\ g.p.uri \in Uris /\ g.p.scope \subseteq Scopes
BY DEF Pages, Params

LEMMA OwnersExcludeNobody == NoUser \notin Users
BY UserAssumption

LEMMA SessionLengthNatural ==
  SessionLength \in Nat /\ MfaLength \in Nat /\ MaxTime \in Nat /\ MaxMishaps \in Nat
BY TimeAssumption

\* A request and a page at rest promise nothing.
LEMMA AtRest ==
  ASSUME NEW q \in Requests, NEW g \in Pages, NEW uris, NEW given, NEW logins,
         q.step = "idle" \/ (q.step = "reply" /\ q.show \notin {"totp", "code", "error"}),
         q.sent.user = NoUser, g.kind # "totp" \/ g.user \in Users
  PROVE  Sound(q, g, uris, given, logins)
<1>1. Owned(q, g)
  BY DEF Owned
<1>2. Earned(q.sent, logins)
  BY OwnersExcludeNobody DEF Earned
<1>3. Checked(q, g.p, uris)
  BY DEF Checked
<1>4. Approved(q, g.p, given)
  BY DEF Approved
<1> QED
  BY <1>1, <1>2, <1>3, <1>4 DEF Sound

LEMMA InitSecure == Init => IInv
<1> SUFFICES ASSUME Init PROVE IInv
  OBVIOUS
<1>1. Typed
  <2>1. page \in [Tabs -> Pages] /\ req \in [Tabs -> Requests]
    BY BlankPage, IdleRequest DEF Init
  <2>2. cookie \in Sessions
    BY NoSessionTyped DEF Init
  <2>3. loggedIn \in [Users -> Int]
    BY SessionLengthNatural DEF Init, Never
  <2>4. clock \in 0..MaxTime /\ mishaps \in 0..MaxMishaps
    BY SessionLengthNatural DEF Init
  <2>5. consents \in [Users \X Clients -> SUBSET Scopes]
    BY DEF Init
  <2>6. registered \in [Clients -> SUBSET Uris] /\ approved \subseteq Consents
    BY DEF Init
  <2> QED
    BY <2>1, <2>2, <2>3, <2>4, <2>5, <2>6 DEF Typed
<1>2. ASSUME NEW t \in Tabs PROVE Sound(req[t], page[t], registered, approved, loggedIn)
  <2>1. req[t] = Idle /\ page[t] = Blank
    BY DEF Init
  <2> QED
    BY <2>1, AtRest, BlankPage, IdleRequest, NoSessionTyped
<1>3. Consented
  BY DEF Init, Consented
<1>4. Punctual
  <2>1. ASSUME NEW u \in Users PROVE loggedIn[u] <= clock
    BY SessionLengthNatural DEF Init, Never
  <2>2. Earned(cookie, loggedIn)
    BY NoSessionTyped, OwnersExcludeNobody DEF Init, Earned
  <2> QED
    BY <2>1, <2>2 DEF Punctual
<1> QED
  BY <1>1, <1>2, <1>3, <1>4 DEF IInv, Secure, AllSound

--------------------------------------------------------------------------------
(* What a step of one tab leaves to the others *)

\* Redirect URIs are given up, users allow more and log in again.
LEMMA Lasting ==
  ASSUME NEW q \in Requests, NEW g \in Pages,
         NEW uris, NEW uris2, \A c \in Clients : uris2[c] \subseteq uris[c],
         NEW given, NEW given2, given \subseteq given2,
         NEW logins \in [Users -> Int], NEW logins2 \in [Users -> Int],
         \A u \in Users : logins[u] <= logins2[u],
         Sound(q, g, uris, given, logins)
  PROVE  Sound(q, g, uris2, given2, logins2)
<1>1. Owned(q, g) /\ Earned(q.sent, logins) /\ Checked(q, g.p, uris) /\ Approved(q, g.p, given)
  BY DEF Sound
<1>2. g.p.client \in Clients /\ q.sent.exp \in Int
  BY PageFields, RequestFields
<1>3. Earned(q.sent, logins2)
  BY <1>1, <1>2, SessionLengthNatural DEF Earned
<1>4. Checked(q, g.p, uris2)
  BY <1>1, <1>2 DEF Checked
<1>5. Allowed(q.sent.user, g.p, given) => Allowed(q.sent.user, g.p, given2)
  BY DEF Allowed
<1>6. Approved(q, g.p, given2)
  BY <1>1, <1>5 DEF Approved
<1> QED
  BY <1>1, <1>3, <1>4, <1>6 DEF Sound

\* The auth service and the histories only move on.
Onward ==
  /\ \A c \in Clients : registered'[c] \subseteq registered[c]
  /\ approved \subseteq approved'
  /\ \A u \in Users : loggedIn[u] <= loggedIn'[u]

\* One tab's request and page change, the others are as sound as before.
LEMMA TabMoves ==
  ASSUME IInv, Typed', Onward, NEW t \in Tabs, NEW q \in Requests, NEW g \in Pages,
         req' = [req EXCEPT ![t] = q], page' = [page EXCEPT ![t] = g],
         Sound(q, g, registered', approved', loggedIn')
  PROVE  AllSound'
<1>1. Typed /\ AllSound
  BY DEF IInv, Secure
<1>2. SUFFICES ASSUME NEW o \in Tabs
               PROVE  Sound(req'[o], page'[o], registered', approved', loggedIn')
  BY DEF AllSound
<1>3. CASE o = t
  BY <1>1, <1>3 DEF Typed
<1>4. CASE o # t
  <2>1. req'[o] = req[o] /\ page'[o] = page[o] /\ req[o] \in Requests /\ page[o] \in Pages
    BY <1>1, <1>4 DEF Typed
  <2>2. Sound(req[o], page[o], registered, approved, loggedIn)
    BY <1>1 DEF AllSound
  <2>3. loggedIn \in [Users -> Int] /\ loggedIn' \in [Users -> Int]
    BY <1>1 DEF Typed
  <2>4. Sound(req[o], page[o], registered', approved', loggedIn')
    BY <2>1, <2>2, <2>3, Lasting DEF Onward
  <2> QED
    BY <2>1, <2>4
<1> QED
  BY <1>3, <1>4

\* A step of one tab that changes nothing outside of the browser's tab.
LEMMA QuietStep ==
  ASSUME IInv, NEW t \in Tabs, NEW q \in Requests, NEW g \in Pages,
         req' = [req EXCEPT ![t] = q], page' = [page EXCEPT ![t] = g],
         Sound(q, g, registered, approved, loggedIn),
         Fine \/ Mishap, UNCHANGED <<clock, service, cookie, history>>
  PROVE  IInv'
<1>1. Typed /\ Consented /\ Punctual
  BY DEF IInv, Secure
<1>2. UNCHANGED <<clock, registered, consents, cookie, loggedIn, approved>>
  BY DEF service, history
<1>3. mishaps' \in 0..MaxMishaps
  BY <1>1, SessionLengthNatural DEF Typed, Fine, Mishap
<1>4. Typed'
  BY <1>1, <1>2, <1>3 DEF Typed
<1>5. Onward
  BY <1>1, <1>2 DEF Onward, Typed
<1>6. AllSound'
  BY <1>2, <1>4, <1>5, TabMoves
<1>7. Consented' /\ Punctual'
  BY <1>1, <1>2 DEF Consented, Punctual
<1> QED
  BY <1>4, <1>6, <1>7 DEF IInv, Secure

--------------------------------------------------------------------------------
(* The browser *)

LEMMA TabTyped ==
  ASSUME IInv, NEW t \in Tabs
  PROVE  /\ req[t] \in Requests /\ page[t] \in Pages
         /\ Owned(req[t], page[t]) /\ Earned(req[t].sent, loggedIn)
         /\ Checked(req[t], page[t].p, registered) /\ Approved(req[t], page[t].p, approved)
BY DEF IInv, Typed, Secure, AllSound, Sound

LEMMA Sending ==
  ASSUME IInv, NEW t \in Tabs, NEW step \in {"client", "login", "totp", "posted"},
         NEW p \in Params, NEW user \in Owners, NEW allow \in Flags, NEW given,
         step \in {"login", "totp"} => user \in Users,
         step = "posted" /\ allow /\ cookie.user \in Users => Approval(cookie.user, p) \in given,
         Send(t, step, p, user, allow)
  PROVE  \E q \in Requests, g \in Pages :
           /\ req' = [req EXCEPT ![t] = q] /\ page' = [page EXCEPT ![t] = g]
           /\ Sound(q, g, registered, given, loggedIn)
<1>1. page[t] \in Pages /\ Owned(req[t], page[t]) /\ page \in [Tabs -> Pages]
      /\ cookie \in Sessions /\ Earned(cookie, loggedIn)
  BY TabTyped DEF IInv, Typed, Secure, Punctual
<1> DEFINE trusted == p.uri \in registered[p.client]
           q == [Idle EXCEPT !.step = step, !.sent = cookie, !.user = user,
                             !.allow = allow, !.trusted = trusted]
           g == [page[t] EXCEPT !.p = p]
<1>2. req' = [req EXCEPT ![t] = q]
  BY DEF Send
<1>3. page' = [page EXCEPT ![t] = g]
  BY <1>1 DEF Send
<1>4. step \in Steps /\ trusted \in Flags
  BY DEF Steps, Flags
<1>5. g \in Pages /\ g.p = p /\ g.kind = page[t].kind /\ g.user = page[t].user
  BY <1>1 DEF Pages
<1>6. trusted <=> p.uri \in registered[p.client]
  OBVIOUS
<1> HIDE DEF trusted, g
<1>7. q \in Requests
  BY <1>1, <1>4, IdleRequest DEF Requests
<1>8. q.step = step /\ q.sent = cookie /\ q.user = user /\ q.allow = allow /\ q.trusted = trusted
  BY IdleRequest DEF Requests
<1> HIDE DEF q
<1>9. Owned(q, g)
  BY <1>1, <1>5, <1>8 DEF Owned
<1>10. Checked(q, p, registered)
  BY <1>6, <1>8 DEF Checked
<1>11. Approved(q, p, given)
  BY <1>8 DEF Approved
<1>12. Sound(q, g, registered, given, loggedIn)
  BY <1>1, <1>5, <1>8, <1>9, <1>10, <1>11 DEF Sound
<1> QED
  BY <1>2, <1>3, <1>5, <1>7, <1>12

LEMMA StartKeeps == ASSUME IInv, NEW t \in Tabs, Start(t) PROVE IInv'
<1>1. PICK p \in Wishes : Send(t, "client", p, NoUser, FALSE)
  BY DEF Start
<1>2. p \in Params /\ NoUser \in Owners /\ FALSE \in Flags
  BY WishedParams DEF Owners, Flags
<1>3. \E q \in Requests, g \in Pages :
           /\ req' = [req EXCEPT ![t] = q] /\ page' = [page EXCEPT ![t] = g]
           /\ Sound(q, g, registered, approved, loggedIn)
  BY <1>1, <1>2, Sending
<1> QED
  BY <1>3, QuietStep DEF Start

LEMMA PostLoginKeeps == ASSUME IInv, NEW t \in Tabs, PostLogin(t) PROVE IInv'
<1>1. PICK u \in Users : Send(t, "login", page[t].p, u, FALSE)
  BY DEF PostLogin
<1>2. page[t].p \in Params /\ u \in Owners /\ FALSE \in Flags
  BY TabTyped, PageFields DEF Owners, Flags
<1>3. \E q \in Requests, g \in Pages :
           /\ req' = [req EXCEPT ![t] = q] /\ page' = [page EXCEPT ![t] = g]
           /\ Sound(q, g, registered, approved, loggedIn)
  BY <1>1, <1>2, Sending
<1> QED
  BY <1>3, QuietStep DEF PostLogin

LEMMA PostTotpKeeps == ASSUME IInv, NEW t \in Tabs, PostTotp(t) PROVE IInv'
<1>1. Send(t, "totp", page[t].p, page[t].user, FALSE) /\ page[t].kind = "totp"
  BY DEF PostTotp, Showing
<1>2. page[t].user \in Users
  BY <1>1, TabTyped DEF Owned
<1>3. page[t].p \in Params /\ page[t].user \in Owners /\ FALSE \in Flags
  BY TabTyped, PageFields DEF Flags
<1>4. \E q \in Requests, g \in Pages :
           /\ req' = [req EXCEPT ![t] = q] /\ page' = [page EXCEPT ![t] = g]
           /\ Sound(q, g, registered, approved, loggedIn)
  BY <1>1, <1>2, <1>3, Sending
<1> QED
  BY <1>4, QuietStep DEF PostTotp

LEMMA PostConsentKeeps == ASSUME IInv, NEW t \in Tabs, PostConsent(t) PROVE IInv'
<1> DEFINE p == page[t].p
           mine == Approval(cookie.user, p)
<1>1. PICK allow \in BOOLEAN :
        /\ Send(t, "posted", p, NoUser, allow)
        /\ approved' = IF allow /\ cookie.user # NoUser THEN approved \cup {mine} ELSE approved
  BY DEF PostConsent, Approval
<1>2. p \in Params /\ NoUser \in Owners /\ allow \in Flags /\ p.client \in Clients /\ p.scope \subseteq Scopes
  BY TabTyped, PageFields DEF Owners, Flags
<1>3. Typed /\ Consented /\ Punctual
  BY DEF IInv, Secure
<1>4. cookie.user \in Owners /\ (cookie.user # NoUser <=> cookie.user \in Users)
  BY <1>3, OwnersExcludeNobody DEF Typed, Sessions, Owners
<1>5. approved \subseteq approved' /\ (allow /\ cookie.user \in Users => mine \in approved')
  BY <1>1, <1>4
<1>6. approved' \subseteq Consents
  <2>1. cookie.user \in Users => mine \in Consents
    BY <1>2 DEF Approval, Consents
  <2> QED
    BY <1>1, <1>3, <1>4, <2>1 DEF Typed
<1>7. UNCHANGED <<clock, registered, consents, cookie, loggedIn, mishaps>>
  BY DEF PostConsent, service, Fine
<1> HIDE DEF mine, p
<1>8. PICK q \in Requests, g \in Pages :
           /\ req' = [req EXCEPT ![t] = q] /\ page' = [page EXCEPT ![t] = g]
           /\ Sound(q, g, registered, approved', loggedIn)
  BY <1>1, <1>2, <1>5, Sending DEF mine
<1>9. Typed'
  BY <1>3, <1>6, <1>7, <1>8 DEF Typed
<1>10. Onward
  BY <1>3, <1>5, <1>7 DEF Onward, Typed
<1>11. AllSound'
  BY <1>7, <1>8, <1>9, <1>10, TabMoves
<1>12. Consented'
  BY <1>3, <1>5, <1>7 DEF Consented
<1>13. Punctual'
  BY <1>3, <1>7 DEF Punctual
<1> QED
  BY <1>9, <1>11, <1>12, <1>13 DEF IInv, Secure

\* A request is at rest in a tab without a flow, or with a page to fill in.
LEMMA Resting ==
  ASSUME NEW g \in Pages, g.kind # "totp" \/ g.user \in Users,
         NEW uris, NEW given, NEW logins
  PROVE  Idle \in Requests /\ Sound(Idle, g, uris, given, logins)
BY IdleRequest, NoSessionTyped, AtRest

\* The cookie that a reply leaves in the browser is earned.
LEMMA CookieStored ==
  ASSUME IInv, NEW t \in Tabs, Receive(t)
  PROVE  cookie' \in Sessions /\ Earned(cookie', loggedIn)
<1>1. /\ cookie \in Sessions /\ Earned(cookie, loggedIn)
      /\ req[t].sent \in Sessions /\ Earned(req[t].sent, loggedIn)
  BY TabTyped, RequestFields DEF IInv, Typed, Secure, Punctual
<1>2. req[t].set \in Orders
  BY TabTyped, RequestFields
<1>3. NoSession \in Sessions /\ Earned(NoSession, loggedIn)
  BY NoSessionTyped, OwnersExcludeNobody DEF Earned
<1>4. cookie' \in {cookie, NoSession, req[t].sent}
  BY <1>2 DEF Receive, Orders
<1> QED
  BY <1>1, <1>3, <1>4

\* The request and the page of a tab whose reply has arrived.
LEMMA PageShown ==
  ASSUME IInv, NEW t \in Tabs, Receive(t)
  PROVE  \E q \in Requests, g \in Pages :
           /\ req' = [req EXCEPT ![t] = q] /\ page' = [page EXCEPT ![t] = g]
           /\ Sound(q, g, registered, approved, loggedIn)
<1>1. /\ req[t] \in Requests /\ page[t] \in Pages /\ Owned(req[t], page[t])
      /\ req[t].step = "reply" /\ page \in [Tabs -> Pages]
  BY TabTyped DEF Receive, IInv, Typed
<1>2. CASE req[t].show = "redirect"
  <2> DEFINE p == page[t].p
             trusted == p.uri \in registered[p.client]
             q == [Idle EXCEPT !.step = "client", !.sent = cookie', !.trusted = trusted]
  <2>1. req' = [req EXCEPT ![t] = q]
    BY <1>2 DEF Receive
  <2>2. page' = [page EXCEPT ![t] = page[t]]
    BY <1>1, <1>2 DEF Receive
  <2>3. "client" \in Steps /\ trusted \in Flags
    BY DEF Steps, Flags
  <2>4. trusted <=> p.uri \in registered[p.client]
    OBVIOUS
  <2> HIDE DEF trusted
  <2>5. q \in Requests
    BY <2>3, CookieStored, IdleRequest DEF Requests
  <2>6. q.step = "client" /\ q.sent = cookie' /\ q.trusted = trusted
    BY IdleRequest DEF Requests
  <2> HIDE DEF q
  <2>7. Owned(q, page[t])
    BY <1>1, <2>6 DEF Owned
  <2>8. Checked(q, p, registered)
    BY <2>4, <2>6 DEF Checked
  <2>9. Approved(q, p, approved)
    BY <2>6 DEF Approved
  <2>10. Sound(q, page[t], registered, approved, loggedIn)
    BY <2>6, <2>7, <2>8, <2>9, CookieStored DEF Sound
  <2> QED
    BY <1>1, <2>1, <2>2, <2>5, <2>10
<1>3. CASE req[t].show \in Ends
  <2>1. req' = [req EXCEPT ![t] = Idle] /\ page' = [page EXCEPT ![t] = Blank]
    BY <1>3 DEF Receive, Ends
  <2> QED
    BY <2>1, BlankPage, Resting
<1>4. CASE req[t].show \in Forms
  <2> DEFINE g == [page[t] EXCEPT !.kind = req[t].show, !.user = req[t].user, !.mfa = req[t].mfa]
  <2>1. req' = [req EXCEPT ![t] = Idle] /\ page' = [page EXCEPT ![t] = g]
    BY <1>1, <1>4 DEF Receive, Ends, Forms
  <2>2. req[t].show \in Kinds /\ req[t].user \in Owners /\ req[t].mfa \in Int
    BY <1>1, <1>4, RequestFields DEF Kinds
  <2>3. g \in Pages /\ g.kind = req[t].show /\ g.user = req[t].user
    BY <1>1, <2>2 DEF Pages
  <2>4. g.kind # "totp" \/ g.user \in Users
    BY <1>1, <2>3 DEF Owned
  <2> QED
    BY <2>1, <2>3, <2>4, Resting
<1>5. req[t].show \in Shows
  BY <1>1, RequestFields
<1> QED
  BY <1>2, <1>3, <1>4, <1>5 DEF Shows

LEMMA ReceiveKeeps == ASSUME IInv, NEW t \in Tabs, Receive(t) PROVE IInv'
<1>1. Typed /\ Consented /\ Punctual
  BY DEF IInv, Secure
<1>2. UNCHANGED <<clock, registered, consents, loggedIn, approved, mishaps>>
  BY DEF Receive, service, history, Fine
<1>3. PICK q \in Requests, g \in Pages :
           /\ req' = [req EXCEPT ![t] = q] /\ page' = [page EXCEPT ![t] = g]
           /\ Sound(q, g, registered, approved, loggedIn)
  BY PageShown
<1>4. Typed'
  BY <1>1, <1>2, <1>3, CookieStored DEF Typed
<1>5. Onward
  BY <1>1, <1>2 DEF Onward, Typed
<1>6. AllSound'
  BY <1>2, <1>3, <1>4, <1>5, TabMoves
<1>7. Consented'
  BY <1>1, <1>2 DEF Consented
<1>8. Punctual'
  BY <1>1, <1>2, CookieStored DEF Punctual
<1> QED
  BY <1>4, <1>6, <1>7, <1>8 DEF IInv, Secure

LEMMA LoseKeeps == ASSUME IInv, NEW t \in Tabs, Lose(t) PROVE IInv'
<1>1. req' = [req EXCEPT ![t] = Idle] /\ page' = [page EXCEPT ![t] = Blank]
  BY DEF Lose
<1>2. Idle \in Requests /\ Sound(Idle, Blank, registered, approved, loggedIn)
  BY BlankPage, Resting
<1> QED
  BY <1>1, <1>2, BlankPage, QuietStep DEF Lose

LEMMA LeaveKeeps == ASSUME IInv, NEW t \in Tabs, Leave(t) PROVE IInv'
<1>1. req' = [req EXCEPT ![t] = req[t]] /\ page' = [page EXCEPT ![t] = Blank]
  BY DEF Leave, IInv, Typed
<1>2. /\ req[t] \in Requests /\ Earned(req[t].sent, loggedIn) /\ req[t].step = "idle"
  BY TabTyped DEF Leave, At
<1>3. Owned(req[t], Blank) /\ Checked(req[t], Blank.p, registered)
      /\ Approved(req[t], Blank.p, approved)
  BY <1>2, BlankPage DEF Owned, Checked, Approved
<1>4. Sound(req[t], Blank, registered, approved, loggedIn)
  BY <1>2, <1>3 DEF Sound
<1> QED
  BY <1>1, <1>2, <1>4, BlankPage, QuietStep DEF Leave

--------------------------------------------------------------------------------
(* The steps of the handlers *)

\* A handler goes on to a step that its request is fit for.
LEMMA Going ==
  ASSUME IInv, NEW t \in Tabs, NEW step \in Steps \ {"reply"}, Goto(t, step)
  PROVE  \E q \in Requests :
           /\ req' = [req EXCEPT ![t] = q] /\ page' = [page EXCEPT ![t] = page[t]]
           /\ q.step = step /\ q.sent = req[t].sent /\ q.user = req[t].user
           /\ q.allow = req[t].allow /\ q.trusted = req[t].trusted
<1> DEFINE q == [req[t] EXCEPT !.step = step]
<1>1. req[t] \in Requests /\ req \in [Tabs -> Requests] /\ page \in [Tabs -> Pages]
  BY DEF IInv, Typed
<1>2. req' = [req EXCEPT ![t] = q] /\ page' = [page EXCEPT ![t] = page[t]]
  BY <1>1 DEF Goto
<1>3. q \in Requests
  BY <1>1 DEF Requests
<1>4. /\ q.step = step /\ q.sent = req[t].sent /\ q.user = req[t].user
      /\ q.allow = req[t].allow /\ q.trusted = req[t].trusted
  BY <1>1 DEF Requests
<1> QED
  BY <1>2, <1>3, <1>4

\* What a reply may tell depends on what its request has shown.
MayReply(t, show) ==
  /\ show \in {"code", "error"} => req[t].trusted
  /\ show = "code" => Allowed(req[t].sent.user, page[t].p, approved)
  /\ show = "totp" => req[t].user \in Users

LEMMA Replying ==
  ASSUME IInv, NEW t \in Tabs, NEW show \in Shows, Reply(t, show), MayReply(t, show),
         Fine \/ Mishap, UNCHANGED <<clock, service, cookie, history>>
  PROVE  IInv'
<1>1. /\ req[t] \in Requests /\ page[t] \in Pages /\ page \in [Tabs -> Pages]
      /\ Owned(req[t], page[t]) /\ Earned(req[t].sent, loggedIn)
  BY TabTyped DEF IInv, Typed
<1> DEFINE sent == IF show = "code" THEN req[t].sent ELSE NoSession
           user == IF show = "totp" THEN req[t].user ELSE NoUser
           mfa == IF show = "totp" THEN MfaToken(t) ELSE 0
           trusted == req[t].trusted
           q == [Idle EXCEPT !.step = "reply", !.show = show, !.trusted = trusted,
                             !.sent = sent, !.user = user, !.mfa = mfa]
<1>2. req' = [req EXCEPT ![t] = q] /\ page' = [page EXCEPT ![t] = page[t]]
  BY <1>1 DEF Reply
<1>3. "reply" \in Steps /\ trusted \in Flags /\ sent \in Sessions /\ user \in Owners
  BY <1>1, RequestFields, NoSessionTyped DEF Steps, Owners
<1>4. mfa \in Int
  <2>1. clock \in Int /\ MfaLength \in Int /\ page[t].mfa \in Int
    BY <1>1, PageFields, SessionLengthNatural DEF IInv, Typed
  <2> QED
    BY <2>1 DEF MfaToken
<1>5. Earned(sent, loggedIn)
  BY <1>1, NoSessionTyped, OwnersExcludeNobody DEF Earned
<1>6. (show = "code" => sent = req[t].sent) /\ (show = "totp" => user = req[t].user)
      /\ trusted = req[t].trusted
  OBVIOUS
<1> HIDE DEF sent, user, trusted, mfa
<1>7. q \in Requests
  BY <1>3, <1>4, IdleRequest DEF Requests
<1>8. q.step = "reply" /\ q.show = show /\ q.trusted = trusted /\ q.sent = sent /\ q.user = user
  BY IdleRequest DEF Requests
<1> HIDE DEF q
<1>9. Owned(q, page[t])
  BY <1>1, <1>6, <1>8 DEF Owned, MayReply
<1>10. Checked(q, page[t].p, registered)
  BY <1>6, <1>8 DEF Checked, MayReply
<1>11. Approved(q, page[t].p, approved)
  BY <1>6, <1>8 DEF Approved, MayReply
<1>12. Sound(q, page[t], registered, approved, loggedIn)
  BY <1>5, <1>8, <1>9, <1>10, <1>11 DEF Sound
<1> QED
  BY <1>1, <1>2, <1>7, <1>12, QuietStep

\* What a step of a handler takes for granted.
MayGo(t, step) ==
  /\ req[t].step \notin {"idle", "reply"}
  /\ step = "validate" => req[t].user \in Users
  /\ step # "validate" => req[t].sent.user \in Users
  /\ step \in {"consent", "create", "save"} => req[t].trusted
  /\ step \in {"recheck", "save"} /\ req[t].allow =>
       Approval(req[t].sent.user, page[t].p) \in approved
  /\ step = "save" => req[t].allow
  /\ step = "create" => Allowed(req[t].sent.user, page[t].p, approved)

Later == {"consent", "create", "validate", "recheck", "save"}

LEMMA Advancing ==
  ASSUME IInv, NEW t \in Tabs, NEW step \in Later, Goto(t, step), MayGo(t, step)
  PROVE  \E q \in Requests :
           /\ req' = [req EXCEPT ![t] = q] /\ page' = [page EXCEPT ![t] = page[t]]
           /\ Sound(q, page[t], registered, approved, loggedIn)
<1>1. step \in Steps \ {"reply"} /\ step \notin {"idle", "login", "totp", "posted", "client"}
  BY DEF Later, Steps
<1>2. PICK q \in Requests :
        /\ req' = [req EXCEPT ![t] = q] /\ page' = [page EXCEPT ![t] = page[t]]
        /\ q.step = step /\ q.sent = req[t].sent /\ q.user = req[t].user
        /\ q.allow = req[t].allow /\ q.trusted = req[t].trusted
  BY <1>1, Going
<1>3. /\ Owned(req[t], page[t]) /\ Earned(req[t].sent, loggedIn)
      /\ Checked(req[t], page[t].p, registered)
  BY TabTyped
<1>4. Owned(q, page[t])
  BY <1>1, <1>2, <1>3 DEF Owned, MayGo
<1>5. Checked(q, page[t].p, registered)
  BY <1>1, <1>2, <1>3 DEF Checked, MayGo
<1>6. Approved(q, page[t].p, approved)
  BY <1>1, <1>2 DEF Approved, MayGo
<1>7. Sound(q, page[t], registered, approved, loggedIn)
  BY <1>2, <1>3, <1>4, <1>5, <1>6 DEF Sound
<1> QED
  BY <1>2, <1>7

LEMMA AdvancingKeeps ==
  ASSUME IInv, NEW t \in Tabs, NEW step \in Later, Goto(t, step), MayGo(t, step),
         Fine \/ Mishap, UNCHANGED <<clock, service, cookie, history>>
  PROVE  IInv'
<1>1. page[t] \in Pages
  BY TabTyped
<1> QED
  BY <1>1, Advancing, QuietStep

LEMMA SessionOwner ==
  ASSUME IInv, NEW t \in Tabs, GetSession(req[t].sent)
  PROVE  req[t].sent.user \in Users /\ clock <= loggedIn[req[t].sent.user] + SessionLength
<1>1. req[t] \in Requests /\ Earned(req[t].sent, loggedIn)
  BY TabTyped
<1>2. req[t].sent.user \in Owners /\ req[t].sent.exp \in Int
  BY <1>1, RequestFields
<1>3. req[t].sent.user \in Users
  BY <1>2 DEF GetSession, Owners
<1>4. loggedIn[req[t].sent.user] \in Int /\ clock \in Int /\ SessionLength \in Int
  BY <1>3, SessionLengthNatural DEF IInv, Typed
<1> QED
  BY <1>1, <1>2, <1>3, <1>4 DEF GetSession, Earned

LEMMA AuthorizeKeeps == ASSUME IInv, NEW t \in Tabs, Authorize(t) PROVE IInv'
<1> DEFINE p == page[t].p
<1>1. /\ req[t].step = "client" /\ UNCHANGED <<clock, service, cookie, history>>
      /\ Fine \/ Mishap
  BY DEF Authorize, At
<1>2. MayReply(t, "failed") /\ MayReply(t, "login") /\ "failed" \in Shows /\ "login" \in Shows
  BY DEF MayReply, Shows, Ends, Forms
<1>3. CASE Reply(t, "failed") \/ Reply(t, "login")
  BY <1>1, <1>2, <1>3, Replying
<1>4. CASE p.uri \in registered[p.client] /\ GetSession(req[t].sent) /\ Goto(t, "consent")
  <2>1. req[t].trusted
    BY <1>1, <1>4, TabTyped DEF Checked
  <2>2. MayGo(t, "consent") /\ "consent" \in Later
    BY <1>1, <1>4, <2>1, SessionOwner DEF MayGo, Later
  <2> QED
    BY <1>1, <1>4, <2>2, AdvancingKeeps
<1> QED
  BY <1>3, <1>4 DEF Authorize

\* Scopes that the auth service holds consents for have been allowed.
LEMMA CoveredIsAllowed ==
  ASSUME IInv, NEW u \in Users, NEW p \in Params,
         ScopesCovered(consents[<<u, p.client>>], p.scope)
  PROVE  Allowed(u, p, approved)
<1>1. p.client \in Clients /\ Consented
  BY DEF Params, IInv, Secure
<1>2. p.scope # {} /\ p.scope \subseteq consents[<<u, p.client>>]
  BY DEF ScopesCovered
<1>3. \A s \in p.scope : \E a \in approved : a.user = u /\ a.client = p.client /\ s \in a.scope
  BY <1>1, <1>2 DEF Consented
<1> QED
  BY <1>2, <1>3 DEF Allowed

LEMMA AuthorizeConsentedKeeps ==
  ASSUME IInv, NEW t \in Tabs, AuthorizeConsented(t) PROVE IInv'
<1> DEFINE p == page[t].p
           u == req[t].sent.user
           granted == consents[<<u, p.client>>]
<1>1. /\ req[t].step = "consent" /\ UNCHANGED <<clock, service, cookie, history>>
      /\ Fine \/ Mishap
  BY DEF AuthorizeConsented, At
<1>2. u \in Users /\ req[t].trusted /\ p \in Params
  BY <1>1, TabTyped, PageFields DEF Owned, Checked
<1>3. CASE Reply(t, "consent")
  <2>1. MayReply(t, "consent") /\ "consent" \in Shows
    BY DEF MayReply, Shows, Forms
  <2> QED
    BY <1>1, <1>3, <2>1, Replying
<1>4. CASE ScopesCovered(granted, p.scope) /\ Goto(t, "create")
  <2>1. Allowed(u, p, approved)
    BY <1>2, <1>4, CoveredIsAllowed
  <2>2. MayGo(t, "create") /\ "create" \in Later
    BY <1>1, <1>2, <2>1 DEF MayGo, Later
  <2> QED
    BY <1>1, <1>4, <2>2, AdvancingKeeps
<1>5. ~ScopesCovered({}, p.scope)
  BY DEF ScopesCovered
<1> QED
  BY <1>3, <1>4, <1>5 DEF AuthorizeConsented

LEMMA IssueCodeKeeps == ASSUME IInv, NEW t \in Tabs, IssueCode(t) PROVE IInv'
<1>1. req[t].step = "create" /\ req[t].trusted /\ Allowed(req[t].sent.user, page[t].p, approved)
  BY TabTyped DEF IssueCode, At, Checked, Approved
<1>2. MayReply(t, "code") /\ MayReply(t, "error") /\ "code" \in Shows /\ "error" \in Shows
  BY <1>1 DEF MayReply, Shows, Ends
<1> QED
  BY <1>2, Replying DEF IssueCode

LEMMA AuthorizeLoginKeeps == ASSUME IInv, NEW t \in Tabs, AuthorizeLogin(t) PROVE IInv'
<1>1. /\ req[t].step = "login" /\ UNCHANGED <<clock, service, cookie, history>>
      /\ Fine \/ Mishap
  BY DEF AuthorizeLogin, At
<1>2. req[t].user \in Users
  BY <1>1, TabTyped DEF Owned
<1>3. /\ MayReply(t, "login") /\ MayReply(t, "failed") /\ MayReply(t, "totp")
      /\ "login" \in Shows /\ "failed" \in Shows /\ "totp" \in Shows
  BY <1>2 DEF MayReply, Shows, Ends, Forms
<1>4. MayGo(t, "validate") /\ "validate" \in Later
  BY <1>1, <1>2 DEF MayGo, Later
<1> QED
  BY <1>1, <1>3, <1>4, Replying, AdvancingKeeps DEF AuthorizeLogin

LEMMA AuthorizeTotpKeeps == ASSUME IInv, NEW t \in Tabs, AuthorizeTotp(t) PROVE IInv'
<1>1. /\ req[t].step = "totp" /\ UNCHANGED <<clock, service, cookie, history>>
      /\ Fine \/ Mishap
  BY DEF AuthorizeTotp, At
<1>2. req[t].user \in Users
  BY <1>1, TabTyped DEF Owned
<1>3. /\ MayReply(t, "failed") /\ MayReply(t, "totp")
      /\ "failed" \in Shows /\ "totp" \in Shows
  BY <1>2 DEF MayReply, Shows, Ends, Forms
<1>4. MayGo(t, "validate") /\ "validate" \in Later
  BY <1>1, <1>2 DEF MayGo, Later
<1> QED
  BY <1>1, <1>3, <1>4, Replying, AdvancingKeeps DEF AuthorizeTotp

\* The user who has completed the login gets a session, earned that moment.
LEMMA LoginFinished ==
  ASSUME IInv, NEW t \in Tabs, req[t].step = "validate", UNCHANGED page,
         req' = [req EXCEPT ![t] =
           [Idle EXCEPT !.step = "reply", !.show = "redirect", !.set = "session",
                        !.sent = [user |-> req[t].user, exp |-> clock + SessionLength]]],
         loggedIn' = [loggedIn EXCEPT ![req[t].user] = clock],
         Fine, UNCHANGED <<clock, service, cookie, approved>>
  PROVE  IInv'
<1> DEFINE u == req[t].user
           session == [user |-> u, exp |-> clock + SessionLength]
           q == [Idle EXCEPT !.step = "reply", !.show = "redirect", !.set = "session",
                             !.sent = session]
<1>1. Typed /\ Consented /\ Punctual
  BY DEF IInv, Secure
<1>2. u \in Users /\ Owned(req[t], page[t]) /\ page[t] \in Pages
  BY TabTyped DEF Owned
<1>3. UNCHANGED <<clock, registered, consents, cookie, approved, mishaps>>
  BY DEF service, Fine
<1>4. clock \in Int /\ SessionLength \in Nat
  BY <1>1, SessionLengthNatural DEF Typed
<1>5. loggedIn' \in [Users -> Int] /\ loggedIn'[u] = clock
      /\ \A v \in Users : loggedIn[v] <= loggedIn'[v] /\ loggedIn'[v] <= clock
  BY <1>1, <1>2, <1>4 DEF Typed, Punctual
<1>6. session \in Sessions /\ session.user = u /\ session.exp = clock + SessionLength
  BY <1>2, <1>4 DEF Sessions
<1>7. req' = [req EXCEPT ![t] = q] /\ page' = [page EXCEPT ![t] = page[t]]
  BY <1>1 DEF Typed
<1> HIDE DEF session
<1>8. "reply" \in Steps /\ "redirect" \in Shows /\ "session" \in Orders
  BY DEF Steps, Shows, Orders
<1>9. q \in Requests
  BY <1>6, <1>8, IdleRequest DEF Requests
<1>10. q.step = "reply" /\ q.show = "redirect" /\ q.sent = session
  BY IdleRequest DEF Requests
<1> HIDE DEF q
<1>11. Earned(session, loggedIn')
  BY <1>4, <1>5, <1>6 DEF Earned
<1>12. Owned(q, page[t])
  BY <1>2, <1>10 DEF Owned
<1>13. Checked(q, page[t].p, registered') /\ Approved(q, page[t].p, approved')
  BY <1>10 DEF Checked, Approved
<1>14. Sound(q, page[t], registered', approved', loggedIn')
  BY <1>10, <1>11, <1>12, <1>13 DEF Sound
<1>15. Typed'
  BY <1>1, <1>2, <1>3, <1>5, <1>7, <1>9 DEF Typed
<1>16. Onward
  BY <1>1, <1>3, <1>5 DEF Onward, Typed
<1>17. AllSound'
  BY <1>2, <1>7, <1>9, <1>14, <1>15, <1>16, TabMoves
<1>18. Consented'
  BY <1>1, <1>3 DEF Consented
<1>19. Earned(cookie, loggedIn')
  BY <1>1, <1>4, <1>5 DEF Earned, Punctual, Typed, Sessions
<1>20. Punctual'
  BY <1>3, <1>5, <1>19 DEF Punctual
<1> QED
  BY <1>15, <1>17, <1>18, <1>20 DEF IInv, Secure

LEMMA FinishAuthorizeLoginKeeps ==
  ASSUME IInv, NEW t \in Tabs, FinishAuthorizeLogin(t) PROVE IInv'
<1>1. MayReply(t, "failed") /\ "failed" \in Shows
  BY DEF MayReply, Shows, Ends
<1>2. CASE Reply(t, "failed") /\ Mishap /\ UNCHANGED loggedIn
  <2>1. UNCHANGED <<clock, service, cookie, history>>
    BY <1>2 DEF FinishAuthorizeLogin, history
  <2> QED
    BY <1>1, <1>2, <2>1, Replying
<1>3. CASE ~(Reply(t, "failed") /\ Mishap /\ UNCHANGED loggedIn)
  BY <1>3, LoginFinished DEF FinishAuthorizeLogin, At
<1> QED
  BY <1>2, <1>3

LEMMA ConsentSessionKeeps == ASSUME IInv, NEW t \in Tabs, ConsentSession(t) PROVE IInv'
<1>1. /\ req[t].step = "posted" /\ UNCHANGED <<clock, service, cookie, history>> /\ Fine
  BY DEF ConsentSession, At
<1>2. CASE GetSession(req[t].sent)
  <2>1. Goto(t, "recheck") /\ "recheck" \in Later
    BY <1>2 DEF ConsentSession, Later
  <2>2. MayGo(t, "recheck")
    BY <1>1, <1>2, SessionOwner, TabTyped DEF MayGo, Approved
  <2> QED
    BY <1>1, <2>1, <2>2, AdvancingKeeps
<1>3. CASE ~GetSession(req[t].sent)
  <2>1. Reply(t, "redirect") /\ MayReply(t, "redirect") /\ "redirect" \in Shows
    BY <1>3 DEF ConsentSession, MayReply, Shows
  <2> QED
    BY <1>1, <2>1, Replying
<1> QED
  BY <1>2, <1>3

LEMMA ConsentClientKeeps == ASSUME IInv, NEW t \in Tabs, ConsentClient(t) PROVE IInv'
<1> DEFINE p == page[t].p
<1>1. /\ req[t].step = "recheck" /\ UNCHANGED <<clock, service, cookie, history>>
      /\ Fine \/ Mishap
  BY DEF ConsentClient, At
<1>2. req[t].sent.user \in Users /\ req[t] \in Requests
  BY <1>1, TabTyped DEF Owned
<1>3. CASE Reply(t, "failed")
  <2>1. MayReply(t, "failed") /\ "failed" \in Shows
    BY DEF MayReply, Shows, Ends
  <2> QED
    BY <1>1, <1>3, <2>1, Replying
<1>4. CASE p.uri \in registered[p.client] /\ IF req[t].allow THEN Goto(t, "save") ELSE Reply(t, "error")
  <2>1. req[t].trusted
    BY <1>1, <1>4, TabTyped DEF Checked
  <2>2. CASE ~req[t].allow
    <3>1. MayReply(t, "error") /\ "error" \in Shows
      BY <2>1 DEF MayReply, Shows, Ends
    <3> QED
      BY <1>1, <1>4, <2>2, <3>1, Replying
  <2>3. CASE req[t].allow
    <3>1. MayGo(t, "save") /\ "save" \in Later
      BY <1>1, <1>2, <2>1, <2>3, TabTyped DEF MayGo, Approved, Later
    <3> QED
      BY <1>1, <1>4, <2>3, <3>1, AdvancingKeeps
  <2> QED
    BY <2>2, <2>3
<1> QED
  BY <1>3, <1>4 DEF ConsentClient

LEMMA SaveConsentKeeps == ASSUME IInv, NEW t \in Tabs, SaveConsent(t) PROVE IInv'
<1> DEFINE p == page[t].p
           u == req[t].sent.user
           mine == Approval(u, p)
<1>1. /\ req[t].step = "save" /\ UNCHANGED <<clock, registered, cookie, loggedIn, approved>>
      /\ Goto(t, "create")
  BY DEF SaveConsent, At, history
<1>2. Typed /\ Consented /\ Punctual /\ page[t] \in Pages
  BY TabTyped DEF IInv, Secure
<1>3. /\ u \in Users /\ req[t].trusted /\ mine \in approved
      /\ p.client \in Clients /\ p.scope \subseteq Scopes
  BY <1>1, TabTyped, PageFields DEF Owned, Checked, Approved
<1>4. mine.user = u /\ mine.client = p.client /\ mine.scope = p.scope
  BY DEF Approval
<1> HIDE DEF mine
<1>5. Allowed(u, p, approved)
  BY <1>3, <1>4 DEF Allowed
<1>6. MayGo(t, "create") /\ "create" \in Later
  BY <1>1, <1>3, <1>5 DEF MayGo, Later
<1>7. PICK q \in Requests :
        /\ req' = [req EXCEPT ![t] = q] /\ page' = [page EXCEPT ![t] = page[t]]
        /\ Sound(q, page[t], registered, approved, loggedIn)
  BY <1>1, <1>6, Advancing
<1>8. CASE UNCHANGED consents
  BY <1>1, <1>2, <1>7, <1>8, QuietStep DEF SaveConsent, service, history
<1>9. CASE /\ Fine
           /\ \E kept \in {{}, consents[<<u, p.client>>]} :
                consents' = [consents EXCEPT ![<<u, p.client>>] = kept \cup p.scope]
  <2>1. PICK kept \in {{}, consents[<<u, p.client>>]} :
          consents' = [consents EXCEPT ![<<u, p.client>>] = kept \cup p.scope]
    BY <1>9
  <2>2. kept \subseteq consents[<<u, p.client>>] /\ consents[<<u, p.client>>] \subseteq Scopes
    BY <1>2, <1>3 DEF Typed
  <2>3. consents' \in [Users \X Clients -> SUBSET Scopes]
    BY <1>2, <1>3, <2>1, <2>2 DEF Typed
  <2>4. mishaps' \in 0..MaxMishaps
    BY <1>2, <1>9 DEF Typed, Fine
  <2>5. Typed'
    BY <1>1, <1>2, <1>7, <2>3, <2>4 DEF Typed
  <2>6. Onward
    BY <1>1, <1>2 DEF Onward, Typed
  <2>7. AllSound'
    BY <1>1, <1>2, <1>7, <2>5, <2>6, TabMoves
  <2>8. Consented'
    <3>1. SUFFICES ASSUME NEW v \in Users, NEW c \in Clients, NEW s \in consents'[<<v, c>>]
                   PROVE  \E a \in approved : a.user = v /\ a.client = c /\ s \in a.scope
      BY <1>1 DEF Consented
    <3>2. CASE v = u /\ c = p.client /\ s \in p.scope
      BY <1>3, <1>4, <3>2
    <3>3. CASE ~(v = u /\ c = p.client /\ s \in p.scope)
      <4>1. s \in consents[<<v, c>>]
        BY <1>2, <1>3, <2>1, <2>2, <3>3 DEF Typed
      <4> QED
        BY <1>2, <4>1 DEF Consented
    <3> QED
      BY <3>2, <3>3
  <2>9. Punctual'
    BY <1>1, <1>2 DEF Punctual
  <2> QED
    BY <2>5, <2>7, <2>8, <2>9 DEF IInv, Secure
<1> QED
  BY <1>8, <1>9 DEF SaveConsent

LEMMA HandleKeeps == ASSUME IInv, NEW t \in Tabs, Handle(t) PROVE IInv'
BY AuthorizeKeeps, AuthorizeConsentedKeeps, IssueCodeKeeps, AuthorizeLoginKeeps,
   AuthorizeTotpKeeps, FinishAuthorizeLoginKeeps, ConsentSessionKeeps, ConsentClientKeeps,
   SaveConsentKeeps DEF Handle

LEMMA OidcLogoutKeeps == ASSUME IInv, NEW t \in Tabs, OidcLogout(t) PROVE IInv'
<1> DEFINE q == [Idle EXCEPT !.step = "reply", !.set = "clear"]
<1>1. page[t] \in Pages /\ page \in [Tabs -> Pages] /\ page[t].kind = "blank"
  BY TabTyped DEF OidcLogout, Showing, IInv, Typed
<1>2. req' = [req EXCEPT ![t] = q] /\ page' = [page EXCEPT ![t] = page[t]]
  BY <1>1 DEF OidcLogout
<1>3. "reply" \in Steps /\ "clear" \in Orders
  BY DEF Steps, Orders
<1>4. q \in Requests
  BY <1>3, IdleRequest DEF Requests
<1>5. q.step = "reply" /\ q.show = "blank" /\ q.sent = NoSession
  BY IdleRequest DEF Requests
<1> HIDE DEF q
<1>6. Sound(q, page[t], registered, approved, loggedIn)
  BY <1>1, <1>4, <1>5, NoSessionTyped, AtRest
<1> QED
  BY <1>1, <1>2, <1>4, <1>6, QuietStep DEF OidcLogout

--------------------------------------------------------------------------------
(* The rest of the system *)

LEMMA DeregisterKeeps ==
  ASSUME IInv, NEW c \in Clients, NEW uri \in Uris, Deregister(c, uri) PROVE IInv'
<1>1. Typed /\ AllSound /\ Consented /\ Punctual
  BY DEF IInv, Secure
<1>2. /\ registered' = [registered EXCEPT ![c] = registered[c] \ {uri}]
      /\ UNCHANGED <<clock, consents, cookie, page, req, loggedIn, approved>>
  BY DEF Deregister, history
<1>3. mishaps' \in 0..MaxMishaps
  BY <1>1, SessionLengthNatural DEF Typed, Deregister, Mishap
<1>4. registered' \in [Clients -> SUBSET Uris]
      /\ \A d \in Clients : registered'[d] \subseteq registered[d]
  BY <1>1, <1>2 DEF Typed
<1>5. Typed'
  BY <1>1, <1>2, <1>3, <1>4 DEF Typed
<1>6. AllSound'
  <2>1. SUFFICES ASSUME NEW t \in Tabs
                 PROVE  Sound(req[t], page[t], registered', approved, loggedIn)
    BY <1>2 DEF AllSound
  <2>2. /\ req[t] \in Requests /\ page[t] \in Pages /\ loggedIn \in [Users -> Int]
        /\ Sound(req[t], page[t], registered, approved, loggedIn)
        /\ \A u \in Users : loggedIn[u] <= loggedIn[u]
    BY <1>1 DEF Typed, AllSound
  <2> QED
    BY <1>4, <2>2, Lasting
<1>7. Consented' /\ Punctual'
  BY <1>1, <1>2 DEF Consented, Punctual
<1> QED
  BY <1>5, <1>6, <1>7 DEF IInv, Secure

LEMMA TickKeeps == ASSUME IInv, Tick PROVE IInv'
<1>1. Typed /\ AllSound /\ Consented /\ Punctual
  BY DEF IInv, Secure
<1>2. /\ UNCHANGED <<registered, consents, cookie, page, req, loggedIn, approved, mishaps>>
      /\ clock' = clock + 1 /\ clock < MaxTime
  BY DEF Tick, service, history, Fine
<1>3. clock' \in 0..MaxTime /\ clock \in Int
  BY <1>1, <1>2, SessionLengthNatural DEF Typed
<1>4. Typed'
  BY <1>1, <1>2, <1>3 DEF Typed
<1>5. AllSound' /\ Consented'
  BY <1>1, <1>2 DEF AllSound, Consented
<1>6. \A u \in Users : loggedIn[u] \in Int /\ loggedIn[u] <= clock
  BY <1>1 DEF Typed, Punctual
<1>7. Punctual'
  BY <1>1, <1>2, <1>3, <1>6 DEF Punctual
<1> QED
  BY <1>4, <1>5, <1>7 DEF IInv, Secure

LEMMA StutterKeeps == ASSUME IInv, UNCHANGED vars PROVE IInv'
BY DEF vars, IInv, Typed, Secure, AllSound, Consented, Punctual

LEMMA Stepping == IInv /\ [Next]_vars => IInv'
<1> SUFFICES ASSUME IInv, [Next]_vars PROVE IInv'
  OBVIOUS
<1>1. ASSUME NEW t \in Tabs, Start(t) \/ UserActs(t) \/ Receive(t) \/ Lose(t) \/ Leave(t)
      PROVE  IInv'
  BY <1>1, StartKeeps, PostLoginKeeps, PostTotpKeeps, PostConsentKeeps, ReceiveKeeps,
     LoseKeeps, LeaveKeeps DEF UserActs
<1>2. ASSUME NEW t \in Tabs, Handle(t) \/ OidcLogout(t) PROVE IInv'
  BY <1>2, HandleKeeps, OidcLogoutKeeps
<1>3. CASE \E c \in Clients, uri \in Uris : Deregister(c, uri)
  BY <1>3, DeregisterKeeps
<1> QED
  BY <1>1, <1>2, <1>3, TickKeeps, StutterKeeps DEF Next

--------------------------------------------------------------------------------
(* The theorems *)

\* What each request may rely on, and what consents and sessions rest on, holds
\* in every reachable state.
THEOREM Invariance == Spec => []IInv
BY InitSecure, Stepping, PTL DEF Spec

\* Every variable keeps its type, and a handler past getSession has a user.
THEOREM TypeCorrect == Spec => []TypeOK
<1>1. IInv => TypeOK
  <2> SUFFICES ASSUME IInv PROVE TypeOK
    OBVIOUS
  <2>1. Typed
    BY DEF IInv
  <2>2. ASSUME NEW t \in Tabs
        PROVE  /\ page[t].kind \in Forms \cup {"blank"} /\ page[t].p \in Params
               /\ page[t].mfa \in Int
    BY TabTyped, PageFields DEF Kinds
  <2>3. ASSUME NEW t \in Tabs
        PROVE  /\ req[t].step \in Steps /\ req[t].sent \in Sessions
               /\ req[t].show \in Forms \cup Ends \cup {"redirect"}
               /\ req[t].set \in {"keep", "clear", "session"}
               /\ req[t].step \in {"consent", "recheck", "save", "create"}
                    => req[t].sent.user \in Users
    BY TabTyped, RequestFields DEF Shows, Orders, Owned
  <2> QED
    BY <2>1, <2>2, <2>3 DEF Typed, TypeOK
<1> QED
  BY <1>1, Invariance, PTL

\* Whatever the tabs do, a code or an error is sent to a redirect URI only if it
\* was registered while that very request was served.
THEOREM OnlyRegisteredUris == Spec => []RedirectsValidated
<1>1. IInv => RedirectsValidated
  BY TabTyped DEF RedirectsValidated, At, Checked
<1> QED
  BY <1>1, Invariance, PTL

\* Every code is for scopes that the user of the session has allowed the client.
THEOREM OnlyApprovedCodes == Spec => []CodesApproved
<1>1. IInv => CodesApproved
  <2> SUFFICES ASSUME IInv, NEW t \in Tabs,
                      At(t, "create") \/ (At(t, "reply") /\ req[t].show = "code")
               PROVE  LET mine == {a \in approved : a.user = req[t].sent.user
                                                    /\ a.client = page[t].p.client}
                      IN  mine # {} /\ page[t].p.scope \subseteq UNION {a.scope : a \in mine}
    BY DEF CodesApproved
  <2>1. Allowed(req[t].sent.user, page[t].p, approved)
    BY TabTyped DEF At, Approved
  <2> QED
    BY <2>1 DEF Allowed
<1> QED
  BY <1>1, Invariance, PTL

\* A handler goes past getSession only if its session is one that lasts.
LEMMA PastGetSession ==
  ASSUME IInv, NEW t \in Tabs, Next,
         req'[t].step \in {"consent", "recheck"}, req[t].step # req'[t].step
  PROVE  GetSession(req[t].sent)
<1>1. req \in [Tabs -> Requests] /\ req' \in [Tabs -> Requests]
  BY Stepping DEF IInv, Typed
<1>2. Idle.step = "idle" /\ Idle \in Requests
  BY IdleRequest
<1>3. ASSUME NEW o \in Tabs, o # t,
             NEW q, req' = [req EXCEPT ![o] = q] PROVE FALSE
  BY <1>1, <1>3
<1>4. ASSUME NEW q, req' = [req EXCEPT ![t] = q] PROVE q.step \in {"consent", "recheck"}
  BY <1>1, <1>4
<1>5. ASSUME NEW o \in Tabs, NEW step \in {"client", "login", "totp", "posted"},
             NEW p, NEW user, NEW allow
      PROVE  ~Send(o, step, p, user, allow)
  <2> DEFINE q == [Idle EXCEPT !.step = step, !.sent = cookie, !.user = user, !.allow = allow,
                     !.trusted = p.uri \in registered[p.client]]
  <2>1. q.step = step
    BY <1>2 DEF Requests
  <2>2. Send(o, step, p, user, allow) => req' = [req EXCEPT ![o] = q]
    BY DEF Send
  <2> HIDE DEF q
  <2> QED
    BY <1>3, <1>4, <2>1, <2>2
<1>6. ASSUME NEW o \in Tabs, NEW show PROVE ~Reply(o, show)
  <2> DEFINE q == [Idle EXCEPT !.step = "reply", !.show = show, !.trusted = req[o].trusted,
                     !.sent = IF show = "code" THEN req[o].sent ELSE NoSession,
                     !.user = IF show = "totp" THEN req[o].user ELSE NoUser,
                     !.mfa = IF show = "totp" THEN MfaToken(o) ELSE 0]
  <2>1. q.step = "reply"
    BY <1>2 DEF Requests
  <2>2. Reply(o, show) => req' = [req EXCEPT ![o] = q]
    BY DEF Reply
  <2> HIDE DEF q
  <2> QED
    BY <1>3, <1>4, <2>1, <2>2
<1>7. ASSUME NEW o \in Tabs, NEW step, Goto(o, step) PROVE o = t /\ step \in {"consent", "recheck"}
  BY <1>1, <1>7 DEF Goto, Requests
<1>8. ASSUME NEW o \in Tabs PROVE ~Start(o) /\ ~UserActs(o)
  <2>1. ~Start(o)
    BY <1>5 DEF Start
  <2>2. ~PostLogin(o) /\ ~PostTotp(o)
    BY <1>5 DEF PostLogin, PostTotp
  <2>3. ~PostConsent(o)
    BY <1>5 DEF PostConsent
  <2> QED
    BY <2>1, <2>2, <2>3 DEF UserActs
<1>9. ASSUME NEW o \in Tabs PROVE ~Receive(o) /\ ~Lose(o)
  <2> DEFINE followed == [Idle EXCEPT !.step = "client", !.sent = cookie',
                            !.trusted = page[o].p.uri \in registered[page[o].p.client]]
  <2>1. followed.step = "client"
    BY <1>2 DEF Requests
  <2>2. Receive(o) \/ Lose(o) => req' = [req EXCEPT ![o] = followed] \/ req' = [req EXCEPT ![o] = Idle]
    BY DEF Receive, Lose
  <2> HIDE DEF followed
  <2> QED
    BY <1>2, <1>3, <1>4, <2>1, <2>2
<1>10. ASSUME NEW o \in Tabs PROVE ~Leave(o)
  BY DEF Leave
<1>11. ASSUME NEW o \in Tabs PROVE ~OidcLogout(o)
  <2> DEFINE q == [Idle EXCEPT !.step = "reply", !.set = "clear"]
  <2>1. q.step = "reply"
    BY <1>2 DEF Requests
  <2>2. OidcLogout(o) => req' = [req EXCEPT ![o] = q]
    BY DEF OidcLogout
  <2> HIDE DEF q
  <2> QED
    BY <1>3, <1>4, <2>1, <2>2
<1>12. ASSUME NEW o \in Tabs PROVE ~FinishAuthorizeLogin(o)
  <2> DEFINE q == [Idle EXCEPT !.step = "reply", !.show = "redirect", !.set = "session",
                     !.sent = [user |-> req[o].user, exp |-> clock + SessionLength]]
  <2>1. q.step = "reply"
    BY <1>2 DEF Requests
  <2>2. FinishAuthorizeLogin(o) => req' = [req EXCEPT ![o] = q] \/ Reply(o, "failed")
    BY DEF FinishAuthorizeLogin
  <2> HIDE DEF q
  <2> QED
    BY <1>3, <1>4, <1>6, <2>1, <2>2
<1>13. ASSUME NEW o \in Tabs
       PROVE  ~AuthorizeConsented(o) /\ ~IssueCode(o) /\ ~SaveConsent(o)
  <2>1. AuthorizeConsented(o) => Goto(o, "create") \/ Reply(o, "consent")
    BY DEF AuthorizeConsented
  <2>2. ~Goto(o, "create")
    BY <1>7
  <2> QED
    BY <1>6, <2>1, <2>2 DEF IssueCode, SaveConsent
<1>14. ASSUME NEW o \in Tabs
       PROVE  ~AuthorizeLogin(o) /\ ~AuthorizeTotp(o) /\ ~ConsentClient(o)
  BY <1>6, <1>7 DEF AuthorizeLogin, AuthorizeTotp, ConsentClient
<1>15. ASSUME NEW o \in Tabs, Authorize(o) \/ ConsentSession(o) PROVE GetSession(req[t].sent)
  BY <1>6, <1>7, <1>15 DEF Authorize, ConsentSession
<1>16. ASSUME NEW o \in Tabs, Handle(o) PROVE GetSession(req[t].sent)
  BY <1>12, <1>13, <1>14, <1>15, <1>16 DEF Handle
<1>17. ASSUME NEW c \in Clients, NEW uri \in Uris PROVE ~Deregister(c, uri)
  BY DEF Deregister
<1>18. ~Tick
  BY DEF Tick
<1> QED
  BY <1>8, <1>9, <1>11, <1>16, <1>17, <1>18, <1>10 DEF Next

\* A request is served for a user only within a session's length of a login of
\* that user.
THEOREM OnlyEarnedSessions == Spec => SessionsEarned
<1> DEFINE Served(t) ==
      req'[t].step \in {"consent", "recheck"} /\ req[t].step # req'[t].step =>
        /\ req[t].sent.user \in Users
        /\ clock <= loggedIn[req[t].sent.user] + SessionLength
<1>1. IInv /\ [Next]_vars => [\A t \in Tabs : Served(t)]_vars
  BY PastGetSession, SessionOwner
<1> QED
  BY <1>1, Invariance, PTL DEF Spec, SessionsEarned
================================================================================
