--------------------------- MODULE ConsoleSession --------------------------
(***************************************************************************)
(* The session in one tab of the console: the gate of a page, which loads  *)
(* the data that the page shows (operator-gate.tsx), alone on the sign-in  *)
(* page and elsewhere inside the gate of the layout (console-auth-gate.tsx),*)
(* which shows the page only while there is a session.  A page that is no  *)
(* longer shown loses its state, but not its calls.  The session is kept   *)
(* by the auth client in the storage of the browser; the tab hears at once *)
(* of what it changes there itself, and later of what other tabs change.   *)
(***************************************************************************)
EXTENDS Naturals, Sequences

CONSTANTS
    Users,
    NoUser,
    MaxNews,    \* bound on changes by other tabs that the tab has not heard of
    MaxLoads    \* bound on the loads under way

VARIABLES
    stored,      \* user of the session in the storage
    news,        \* changes by other tabs, not heard of yet
    place,       \* the page: "operator" to sign in, or one of the "console"
    layout,      \* the layout's gate: "checking" or "allowed"
    check,       \* its reading of the session: "pending" or "done"
    session,     \* user of the session that the page's gate holds
    dashboard,   \* user whose data the page has
    loads,       \* per load: its step, its user, and whether its page is shown
    holders      \* history: the users whose session the page has held, since
                 \* it was opened or has heard of a sign-out

sessionVars == <<stored, news, place, layout, check, session, dashboard, loads, holders>>
pageVars == <<session, dashboard, loads, holders>>

Loads == 1 .. MaxLoads
NoLoad == [step |-> "none", user |-> NoUser, live |-> FALSE]
Reading == [step |-> "session", user |-> NoUser, live |-> TRUE]

SessionInit ==
    /\ stored \in Users \cup {NoUser}
    /\ news = <<>>
    /\ place \in {"operator", "console"}
    /\ layout = "checking" /\ check = "pending"
    /\ session = NoUser /\ dashboard = NoUser /\ holders = {}
    /\ loads = [l \in Loads |-> IF place = "operator" /\ l = 1 THEN Reading ELSE NoLoad]

-----------------------------------------------------------------------------
\* The loads of a page that is closed go on.
Abandon(rest) == [l \in Loads |-> [rest[l] EXCEPT !.live = FALSE]]

Empty == session' = NoUser /\ dashboard' = NoUser /\ holders' = {}
ClosePage(rest) == Empty /\ loads' = Abandon(rest)

\* A page that is opened reads the session.
OpenPage(rest) ==
    /\ Empty
    /\ \E l \in Loads : rest[l] = NoLoad /\ loads' = [Abandon(rest) EXCEPT ![l] = Reading]

\* The page's gate takes over a session; hearing of its end clears the data.
Holds(user) == holders' = IF user = NoUser THEN holders ELSE holders \cup {user}
PageGate(user, rest) ==
    /\ session' = user
    /\ loads' = rest
    /\ IF user = NoUser THEN dashboard' = NoUser /\ holders' = {}
       ELSE Holds(user) /\ UNCHANGED dashboard

\* Mutant: the layout lets in, but never sends away.
OnlyLetsIn(user) == layout' = IF user = NoUser THEN layout ELSE "allowed"

\* The layout lets in whoever has a session, and sends the others away.
LayoutGate(user) == layout' = IF user = NoUser THEN "checking" ELSE "allowed"

\* The layout shows its page throughout, or else closes or opens it.
StaysOpen == "checking" \notin {layout, layout'}
OpensOrCloses(others) == IF layout' = "checking" THEN ClosePage(others) ELSE OpenPage(others)

\* The listeners of both gates; calls are the loads after the step.
Hears(user, calls) ==
    IF place = "operator" THEN PageGate(user, calls) /\ UNCHANGED layout
    ELSE /\ LayoutGate(user)
         /\ IF StaysOpen THEN PageGate(user, calls) ELSE OpensOrCloses(calls)

Ended(l) == [loads EXCEPT ![l] = NoLoad]
Step(l, step) == loads' = [loads EXCEPT ![l].step = step]
Starts(l, step, user) ==
    loads[l] = NoLoad /\ loads' = [loads EXCEPT ![l] = [step |-> step, user |-> user, live |-> TRUE]]
Shown == place = "operator" \/ layout = "allowed"

-----------------------------------------------------------------------------
\* The layout reads the session; or the wait for it times out, and the
\* operator is sent to the sign-in page.
CheckSession ==
    /\ place = "console" /\ check = "pending" /\ check' = "done"
    /\ \/ /\ LayoutGate(stored)
          /\ IF StaysOpen THEN UNCHANGED pageVars ELSE OpensOrCloses(loads)
       \/ UNCHANGED <<layout, pageVars>>
    /\ UNCHANGED <<stored, news, place>>

\* The page's gate reads it too, and loads the data.  What it reads takes the
\* place of a session that has begun meanwhile, without clearing its data.
ReadSession(l) ==
    /\ loads[l].step = "session"
    /\ loads' = IF stored = NoUser THEN Ended(l)
                ELSE [loads EXCEPT ![l] = [step |-> "profile", user |-> stored,
                                           live |-> loads[l].live]]
    /\ IF loads[l].live THEN session' = stored /\ Holds(stored) ELSE UNCHANGED <<session, holders>>
    /\ UNCHANGED <<stored, news, place, layout, check, dashboard>>

\* The form is shown without a session.
SignIn(l, user) ==
    /\ Shown /\ session = NoUser
    /\ stored' = user
    /\ session' = user /\ Holds(user)
    /\ Starts(l, "profile", user)
    /\ UNCHANGED <<news, place, layout, check, dashboard>>

Refresh(l) ==
    /\ session # NoUser /\ dashboard # NoUser
    /\ Starts(l, "data", session)
    /\ UNCHANGED <<stored, news, place, layout, check, session, dashboard, holders>>

\* ensureOperatorProfileFromSession; a failure ends the load.
ProvisionProfile(l) ==
    /\ loads[l].step = "profile"
    /\ Step(l, "data") \/ loads' = Ended(l)
    /\ UNCHANGED <<stored, news, place, layout, check, session, dashboard, holders>>

\* loadDashboard: what it is answered is shown, whoever is signed in by now.
DashboardArrives(l) ==
    /\ loads[l].step = "data"
    /\ dashboard' = IF loads[l].live THEN loads[l].user ELSE dashboard
    /\ loads' = Ended(l)
    /\ UNCHANGED <<stored, news, place, layout, check, session, holders>>

DashboardFails(l) ==
    /\ loads[l].step = "data"
    /\ loads' = Ended(l)
    /\ UNCHANGED <<stored, news, place, layout, check, session, dashboard, holders>>

\* The answer is 401 or 403: redirectToSignIn, also of a page that is closed.
Unauthorized(l) ==
    /\ loads[l].step = "data"
    /\ IF loads[l].live THEN session' = NoUser /\ dashboard' = NoUser
       ELSE UNCHANGED <<session, dashboard>>
    /\ Step(l, "out")
    /\ UNCHANGED <<stored, news, place, layout, check, holders>>

\* It ends whatever session is stored by then, or fails without the auth
\* provider; then the sign-in page is opened (Navigate).
SignsOut(l) ==
    /\ loads[l].step = "out"
    /\ \/ stored' = NoUser /\ Hears(NoUser, Ended(l))
       \/ loads' = Ended(l) /\ UNCHANGED <<stored, layout, session, dashboard, holders>>
    /\ UNCHANGED <<news, place, check>>

\* The button of the sign-in page, or a session that cannot be renewed.
SessionEnds ==
    /\ stored # NoUser /\ stored' = NoUser
    /\ Hears(NoUser, loads)
    /\ UNCHANGED <<news, place, check>>

\* A link, or a redirection of either gate.  The layout stays inside the console.
Navigate(to) ==
    /\ place' = to
    /\ IF place = "console" /\ to = "console" THEN UNCHANGED <<layout, check>>
       ELSE layout' = "checking" /\ check' = "pending"
    /\ IF to = "operator" \/ layout' = "allowed" THEN OpenPage(loads) ELSE ClosePage(loads)
    /\ UNCHANGED <<stored, news>>

OtherTab(user) ==
    /\ Len(news) < MaxNews
    /\ stored' = user
    /\ news' = Append(news, user)
    /\ UNCHANGED <<place, layout, check, pageVars>>

HearNews ==
    /\ news # <<>>
    /\ Hears(Head(news), loads)
    /\ news' = Tail(news)
    /\ UNCHANGED <<stored, place, check>>

SessionNext ==
    \/ CheckSession \/ SessionEnds \/ HearNews
    \/ \E to \in {"operator", "console"} : Navigate(to)
    \/ \E user \in Users \cup {NoUser} : OtherTab(user)
    \/ \E l \in Loads :
         \/ \E user \in Users : SignIn(l, user)
         \/ ReadSession(l) \/ Refresh(l) \/ ProvisionProfile(l) \/ SignsOut(l)
         \/ DashboardArrives(l) \/ DashboardFails(l) \/ Unauthorized(l)

-----------------------------------------------------------------------------
\* A page of the console shows nobody's data whose session has ended: every
\* user whose data it shows has been signed in on it since it was opened, and
\* since it last heard of a sign-out, although answers to loads of an ended
\* session still arrive, and are shown whoever is signed in by then.  What
\* prevents it is the layout, which closes the page in between; the sign-in
\* page has no layout around it, and there it happens.
DataIsOfSession ==
    place = "console" /\ dashboard # NoUser => dashboard \in holders
=============================================================================
