-------------------------------- MODULE OidcFlow --------------------------------
(***************************************************************************)
(* internal/router/authorize.go: the Authorization Code flow in a browser. *)
(* The gateway keeps nothing between requests: the session is a signed     *)
(* cookie shared by all tabs of the browser, the parameters of the flow    *)
(* travel in hidden fields of the pages, and clients, consents and codes   *)
(* are the auth service's.  A handler is split at each call it makes, so   *)
(* that other tabs' requests, expiring sessions and changes in the auth    *)
(* service come between its steps; responses may overtake one another.     *)
(***************************************************************************)
EXTENDS Integers, FiniteSets

CONSTANTS
  Tabs,           \* tabs of one browser
  Users,
  NoUser,         \* the owner of an absent cookie
  Enrolled,       \* users with 2FA
  Clients,
  Uris,           \* redirect URIs
  Wishes,         \* what relying parties put into their links to /authorize
  SessionLength,  \* the hour of setSession, in ticks
  MfaLength,      \* how long the auth service takes an mfa_token
  MaxTime,        \* bound: the clock stops here
  MaxMishaps      \* bound: failed calls, mistyped secrets, lost replies, logouts, ...

Scopes == UNION {p.scope : p \in Wishes}
Params == [type : {"code", "token"}, client : Clients, uri : Uris, scope : SUBSET Scopes]

ASSUME UserAssumption == NoUser \notin Users /\ Enrolled \subseteq Users
ASSUME WishAssumption ==
  /\ Wishes # {}
  /\ Wishes \subseteq [type : {"code", "token"}, client : Clients, uri : Uris,
                       scope : SUBSET Scopes]
ASSUME TimeAssumption == {SessionLength, MfaLength, MaxTime, MaxMishaps} \subseteq Nat

VARIABLES
  clock,
  registered,  \* auth service: client -> redirect URIs
  consents,    \* auth service: <<user, client>> -> scopes
  cookie,      \* browser: the iam_session cookie
  page,        \* browser: what each tab shows
  req,         \* the request of each tab, while it loads
  loggedIn,    \* history: when each user last completed a login
  approved,    \* history: what the user of the session has allowed
  mishaps      \* how much has gone wrong

vars == <<clock, registered, consents, cookie, page, req, loggedIn, approved, mishaps>>

Sessions == [user : Users \cup {NoUser}, exp : Int]
NoSession == [user |-> NoUser, exp |-> 0]
Never == -SessionLength - 1

Idle == [step |-> "idle", sent |-> NoSession, user |-> NoUser, mfa |-> 0, allow |-> FALSE,
         show |-> "blank", set |-> "keep", trusted |-> FALSE]

\* The replies that end a flow: a redirect to the relying party with a code or an
\* error, or an error page of the gateway.  The tab counts as blank again.
Ends == {"code", "error", "failed", "blank"}
Forms == {"login", "totp", "consent"}
Steps == {"idle", "client", "consent", "create", "login", "totp", "validate",
          "posted", "recheck", "save", "reply"}

\* A TOTP page has the mfa_token of a half-completed login in a hidden field:
\* its user and until when the auth service takes it.
Blank == [kind |-> "blank", p |-> CHOOSE p \in Wishes : TRUE, user |-> NoUser, mfa |-> 0]

At(t, step) == req[t].step = step

\* A handler past getSession has a user.
TypeOK ==
  /\ clock \in 0..MaxTime
  /\ registered \in [Clients -> SUBSET Uris]
  /\ consents \in [Users \X Clients -> SUBSET Scopes]
  /\ cookie \in Sessions
  /\ \A t \in Tabs : page[t].kind \in Forms \cup {"blank"}
                     /\ page[t].p \in Params /\ page[t].mfa \in Int
  /\ \A t \in Tabs : req[t].step \in Steps /\ req[t].sent \in Sessions
                     /\ req[t].show \in Forms \cup Ends \cup {"redirect"}
                     /\ req[t].set \in {"keep", "clear", "session"}
                     /\ req[t].step \in {"consent", "recheck", "save", "create"}
                        => req[t].sent.user \in Users
  /\ mishaps \in 0..MaxMishaps

Init ==
  /\ clock = 0
  /\ registered \in [Clients -> SUBSET Uris]
  /\ consents = [uc \in Users \X Clients |-> {}]
  /\ approved = {}
  /\ cookie = NoSession
  /\ page = [t \in Tabs |-> Blank]
  /\ req = [t \in Tabs |-> Idle]
  /\ loggedIn = [u \in Users |-> Never]
  /\ mishaps = 0

service == <<registered, consents>>
history == <<loggedIn, approved>>

Fine == UNCHANGED mishaps
Mishap == mishaps < MaxMishaps /\ mishaps' = mishaps + 1

--------------------------------------------------------------------------------
(* The browser *)

\* A request carries the cookie of the moment.  The history field trusted says
\* whether the redirect URI has been registered at some moment since.
Send(t, step, p, user, allow) ==
  /\ page' = [page EXCEPT ![t].p = p]
  /\ req' = [req EXCEPT ![t] =
       [Idle EXCEPT !.step = step, !.sent = cookie, !.user = user, !.allow = allow,
                    !.trusted = p.uri \in registered[p.client]]]

Showing(t, kind) == At(t, "idle") /\ page[t].kind = kind

\* A relying party sends the user to /authorize.
Start(t) ==
  /\ Showing(t, "blank")
  /\ \E p \in Wishes : Send(t, "client", p, NoUser, FALSE)
  /\ Fine
  /\ UNCHANGED <<clock, service, cookie, history>>

PostLogin(t) ==
  /\ Showing(t, "login")
  /\ \E u \in Users : Send(t, "login", page[t].p, u, FALSE)
  /\ Fine
  /\ UNCHANGED <<clock, service, cookie, history>>

PostTotp(t) ==
  /\ Showing(t, "totp")
  /\ Send(t, "totp", page[t].p, page[t].user, FALSE)
  /\ Fine
  /\ UNCHANGED <<clock, service, cookie, history>>

\* The user of the session, who need not be the one the page was made for.
PostConsent(t) ==
  /\ Showing(t, "consent")
  /\ \E allow \in BOOLEAN :
       /\ Send(t, "posted", page[t].p, NoUser, allow)
       /\ approved' = IF allow /\ cookie.user # NoUser
                      THEN approved \cup {[user |-> cookie.user, client |-> page[t].p.client,
                                           scope |-> page[t].p.scope]}
                      ELSE approved
  /\ Fine
  /\ UNCHANGED <<clock, service, cookie, loggedIn>>

\* The reply arrives: its cookie is stored, its page shown, its redirect followed.
Receive(t) ==
  /\ req[t].step = "reply"
  /\ cookie' = CASE req[t].set = "keep" -> cookie
                 [] req[t].set = "clear" -> NoSession
                 [] req[t].set = "session" -> req[t].sent
  /\ IF req[t].show = "redirect"
     THEN /\ req' = [req EXCEPT ![t] =
               [Idle EXCEPT !.step = "client", !.sent = cookie',
                  !.trusted = page[t].p.uri \in registered[page[t].p.client]]]
          /\ UNCHANGED page
     ELSE /\ req' = [req EXCEPT ![t] = Idle]
          /\ page' = [page EXCEPT ![t] = IF req[t].show \in Ends THEN Blank
                        ELSE [@ EXCEPT !.kind = req[t].show, !.user = req[t].user,
                                       !.mfa = req[t].mfa]]
  /\ Fine
  /\ UNCHANGED <<clock, service, history>>

\* The connection breaks or the gateway stops: the tab never sees the reply.
Lose(t) ==
  /\ req[t].step # "idle"
  /\ req' = [req EXCEPT ![t] = Idle]
  /\ page' = [page EXCEPT ![t] = Blank]
  /\ Mishap
  /\ UNCHANGED <<clock, service, cookie, history>>

\* The user closes a form, or leaves it for another page.
Leave(t) ==
  /\ At(t, "idle")
  /\ page[t].kind # "blank"
  /\ page' = [page EXCEPT ![t] = Blank]
  /\ Fine
  /\ UNCHANGED <<clock, service, cookie, req, history>>

--------------------------------------------------------------------------------
(* The gateway *)

Goto(t, step) == req' = [req EXCEPT ![t].step = step] /\ UNCHANGED page

\* The mfa_token of a TOTP page: Login's answer, or the one the form was posted with.
MfaToken(t) == IF At(t, "login") THEN clock + MfaLength ELSE page[t].mfa

\* A code is for the user of the session, a TOTP page for the one logging in.
Reply(t, show) ==
  /\ req' = [req EXCEPT ![t] =
       [Idle EXCEPT !.step = "reply", !.show = show, !.trusted = req[t].trusted,
                    !.sent = IF show = "code" THEN req[t].sent ELSE NoSession,
                    !.user = IF show = "totp" THEN req[t].user ELSE NoUser,
                    !.mfa = IF show = "totp" THEN MfaToken(t) ELSE 0]]
  /\ UNCHANGED page

\* A mutated form of GetSession.
GetSessionAnyAge(s) == s.user # NoUser

\* A mutated form of GetSession.
GetSessionNoCookie(s) == s.exp >= clock

\* getSession, on the cookie the request came with.
GetSession(s) == s.user # NoUser /\ s.exp >= clock

\* A mutated form of ScopesCovered.
ScopesCoveredVacuously(granted, requested) == requested \subseteq granted

ScopesCovered(granted, requested) == requested # {} /\ requested \subseteq granted

\* authorize, up to its second call.
Authorize(t) ==
  LET p == page[t].p
  IN  /\ At(t, "client")
      /\ \/ p.type # "code" /\ Reply(t, "failed") /\ Fine
         \/ p.type = "code" /\ Reply(t, "failed") /\ Mishap
         \/ /\ p.type = "code" /\ Fine
            /\ \/ p.uri \notin registered[p.client] /\ Reply(t, "failed")
               \/ /\ p.uri \in registered[p.client]
                  /\ IF GetSession(req[t].sent) THEN Goto(t, "consent") ELSE Reply(t, "login")
      /\ UNCHANGED <<clock, service, cookie, history>>

\* GetConsent has answered.  Its error is dropped: no scopes are granted then.
AuthorizeConsented(t) ==
  LET p == page[t].p
      Decide(granted) ==
        IF ScopesCovered(granted, p.scope) THEN Goto(t, "create") ELSE Reply(t, "consent")
  IN  /\ At(t, "consent")
      /\ \/ Fine /\ Decide(consents[req[t].sent.user, p.client])
         \/ Mishap /\ Decide({})
      /\ UNCHANGED <<clock, service, cookie, history>>

\* issueCode: an error of the service is reported to the relying party.
IssueCode(t) ==
  /\ At(t, "create")
  /\ \/ Reply(t, "code") /\ Fine
     \/ Reply(t, "error") /\ Mishap
  /\ UNCHANGED <<clock, service, cookie, history>>

\* authorizeLogin: a wrong password or a failing call shows the form again, the
\* rate limiter an error; a user with 2FA is asked for a code.
AuthorizeLogin(t) ==
  /\ At(t, "login")
  /\ \/ (Reply(t, "login") \/ Reply(t, "failed")) /\ Mishap
     \/ req[t].user \in Enrolled /\ Reply(t, "totp") /\ Fine
     \/ req[t].user \notin Enrolled /\ Goto(t, "validate") /\ Fine
  /\ UNCHANGED <<clock, service, cookie, history>>

\* authorizeTotp: after any error, the refusal of an expired token among them,
\* the page is shown again with the same mfa_token.
AuthorizeTotp(t) ==
  /\ At(t, "totp")
  /\ \/ (Reply(t, "totp") \/ Reply(t, "failed")) /\ Mishap
     \/ page[t].mfa < clock /\ Reply(t, "totp") /\ Fine
     \/ page[t].mfa >= clock /\ Goto(t, "validate") /\ Fine
  /\ UNCHANGED <<clock, service, cookie, history>>

\* A mutated form of FinishAuthorizeLogin.
FinishWithoutCookie(t) ==
  /\ At(t, "validate")
  /\ \/ Reply(t, "failed") /\ Mishap /\ UNCHANGED loggedIn
     \/ /\ Reply(t, "redirect") /\ Fine
        /\ loggedIn' = [loggedIn EXCEPT ![req[t].user] = clock]
  /\ UNCHANGED <<clock, service, cookie, approved>>

\* finishAuthorizeLogin and setSession.
FinishAuthorizeLogin(t) ==
  /\ At(t, "validate")
  /\ \/ Reply(t, "failed") /\ Mishap /\ UNCHANGED loggedIn
     \/ /\ req' = [req EXCEPT ![t] =
               [Idle EXCEPT !.step = "reply", !.show = "redirect", !.set = "session",
                            !.sent = [user |-> req[t].user, exp |-> clock + SessionLength]]]
        /\ loggedIn' = [loggedIn EXCEPT ![req[t].user] = clock]
        /\ UNCHANGED page /\ Fine
  /\ UNCHANGED <<clock, service, cookie, approved>>

\* authorizeConsent: without a session back to /authorize.
ConsentSession(t) ==
  /\ At(t, "posted")
  /\ IF GetSession(req[t].sent) THEN Goto(t, "recheck") ELSE Reply(t, "redirect")
  /\ Fine
  /\ UNCHANGED <<clock, service, cookie, history>>

\* A mutated form of ConsentClient.
ConsentClientUnchecked(t) ==
  /\ At(t, "recheck")
  /\ \/ Reply(t, "failed") /\ Mishap
     \/ Fine /\ IF req[t].allow THEN Goto(t, "save") ELSE Reply(t, "error")
  /\ UNCHANGED <<clock, service, cookie, history>>

ConsentClient(t) ==
  LET p == page[t].p
  IN  /\ At(t, "recheck")
      /\ \/ Reply(t, "failed") /\ Mishap
         \/ p.uri \notin registered[p.client] /\ Reply(t, "failed") /\ Fine
         \/ /\ p.uri \in registered[p.client] /\ Fine
            /\ IF req[t].allow THEN Goto(t, "save") ELSE Reply(t, "error")
      /\ UNCHANGED <<clock, service, cookie, history>>

\* The error of SaveConsent is dropped.  Whether the service adds the scopes to
\* those granted before or replaces them is not known here.
SaveConsent(t) ==
  LET p  == page[t].p
      uc == <<req[t].sent.user, p.client>>
  IN  /\ At(t, "save")
      /\ \/ /\ Fine
            /\ \E kept \in {{}, consents[uc]} :
                 consents' = [consents EXCEPT ![uc] = kept \cup p.scope]
         \/ Mishap /\ UNCHANGED consents
      /\ Goto(t, "create")
      /\ UNCHANGED <<clock, registered, cookie, history>>

\* oidcLogout, from a tab that is not in a flow.
OidcLogout(t) ==
  /\ Showing(t, "blank")
  /\ req' = [req EXCEPT ![t] = [Idle EXCEPT !.step = "reply", !.set = "clear"]]
  /\ Mishap
  /\ UNCHANGED <<clock, service, cookie, page, history>>

Handle(t) ==
  \/ Authorize(t) \/ AuthorizeConsented(t) \/ IssueCode(t)
  \/ AuthorizeLogin(t) \/ AuthorizeTotp(t) \/ FinishAuthorizeLogin(t)
  \/ ConsentSession(t) \/ ConsentClient(t) \/ SaveConsent(t)

--------------------------------------------------------------------------------
\* A client gives up a redirect URI.
Deregister(c, uri) ==
  /\ uri \in registered[c]
  /\ registered' = [registered EXCEPT ![c] = @ \ {uri}]
  /\ Mishap
  /\ UNCHANGED <<clock, consents, cookie, page, req, history>>

Tick ==
  /\ clock < MaxTime
  /\ clock' = clock + 1
  /\ Fine
  /\ UNCHANGED <<service, cookie, page, req, history>>

UserActs(t) == PostLogin(t) \/ PostTotp(t) \/ PostConsent(t)

Next ==
  \/ \E t \in Tabs : Start(t) \/ UserActs(t) \/ Receive(t) \/ Lose(t) \/ Leave(t)
  \/ \E t \in Tabs : Handle(t) \/ OidcLogout(t)
  \/ \E c \in Clients, uri \in Uris : Deregister(c, uri)
  \/ Tick

Spec == Init /\ [][Next]_vars

\* Handlers run, replies travel, and a user in front of a form fills it in.
FairSpec == Spec /\ \A t \in Tabs : WF_vars(Handle(t)) /\ WF_vars(Receive(t)) /\ WF_vars(UserActs(t))

--------------------------------------------------------------------------------
(* Properties *)

\* "never issue/redirect to an unvalidated URI just because it was posted back":
\* a reply sends the browser to a redirect URI, with a code or with an error,
\* only if the client had it registered while that very request was served,
\* although it may have been given up while a login or consent page was open.
RedirectsValidated ==
  \A t \in Tabs : At(t, "create") \/ (At(t, "reply") /\ req[t].show \in {"code", "error"})
                  => req[t].trusted

\* A code lets a client act only within what the user it is for has allowed that
\* client, in one or several consents: never for an unasked or empty consent,
\* whatever GetConsent and SaveConsent lose or whichever tab logs in meanwhile.
CodesApproved ==
  \A t \in Tabs :
    At(t, "create") \/ (At(t, "reply") /\ req[t].show = "code") =>
      LET mine == {a \in approved : a.user = req[t].sent.user /\ a.client = page[t].p.client}
      IN  mine # {} /\ page[t].p.scope \subseteq UNION {a.scope : a \in mine}

\* setSession's "time.Now().Add(time.Hour)": a request is served for a user only
\* if that user has completed a login at most a session's length ago, in
\* whatever order the replies of logins and logouts in other tabs arrive.
SessionsEarned ==
  [][\A t \in Tabs :
       req'[t].step \in {"consent", "recheck"} /\ req[t].step # req'[t].step =>
         /\ req[t].sent.user \in Users
         /\ clock <= loggedIn[req[t].sent.user] + SessionLength]_vars

\* A TOTP page whose mfa_token has expired.
Outlived(t) == Showing(t, "totp") /\ page[t].mfa < clock

\* A flow that was begun ends, at the relying party or on an error page, however
\* redirects, expired sessions and refused forms follow one another.  There is
\* one cycle, which this leaves out: authorizeTotp shows a TOTP page whose token
\* has expired again and again with that token, until the user leaves it.
FlowEnds ==
  \A t \in Tabs : req[t].step = "client" ~> Showing(t, "blank") \/ Outlived(t)
================================================================================
