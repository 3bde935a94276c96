----------------------------- MODULE WebSession -----------------------------
(***************************************************************************)
(* One browser tab and the server sessions it signs in to: the session      *)
(* provider (lib/session.tsx), the connect form, the account menu, the      *)
(* cached region list of the wizard's first page, the job tracker's list    *)
(* (lib/jobs.tsx) and the auth middleware that answers them.                *)
(*                                                                         *)
(* A request is sent with the cookie of that moment, served at the server   *)
(* and its answer arrives, all at different times: answers of requests sent *)
(* with an earlier cookie may arrive after a later sign-in, and they carry  *)
(* their Set-Cookie header with them. Sessions are numbered in the order of *)
(* sign-ins; 0 is no session.                                               *)
(***************************************************************************)
EXTENDS Naturals, SessionTab

CONSTANTS
  MaxLogins,   \* bound on sessions, the one the first page load finds included
  MaxFaults    \* bound on requests or answers lost, and reloads of the tab

ASSUME BoundAssumption == MaxLogins \in Nat /\ MaxFaults \in Nat

server == <<made, alive>>
tab    == <<status, info, page, regions, running>>
ghost  == <<faults, hasty>>
vars   == <<server, cookie, tab, net, ghost>>

\* "stray" is a region list asked for before dropAccountQueries removed the
\* query: nothing reads its answer any more, but a Set-Cookie still counts.
Kind == {"mount", "login", "logout", "regions", "stray", "jobs"}

\* sess: the session of the cookie sent, or the one a login created; live:
\* whether the listing holds live jobs; set: the Set-Cookie header; again: the
\* query's one retry is used up.
NoRequest == [at |-> "none", sess |-> 0, reply |-> "none",
              live |-> FALSE, set |-> "keep", again |-> FALSE]

Request == [at : {"none", "sent", "answered"}, sess : 0 .. MaxLogins,
            reply : {"none", "ok", "gone", "refused", "lost"},
            live : BOOLEAN, set : {"keep", "clear", "new"}, again : BOOLEAN]

\* request(): the browser adds the cookie it has.
Sent(c) == [NoRequest EXCEPT !.at = "sent", !.sess = c]
Idle(k) == net[k].at = "none"
Done(k) == [net EXCEPT ![k] = NoRequest]

(* -------------------------------- the server ------------------------------- *)

Served(k, reply, set) ==
  net' = [net EXCEPT ![k].at = "answered", ![k].reply = reply, ![k].set = set]

\* auth finds the session. deleteSession removes it and clears the cookie.
ServeSession(k) ==
  /\ k # "login" /\ net[k].at = "sent" /\ net[k].sess \in alive
  /\ alive' = IF k = "logout" THEN alive \ {net[k].sess} ELSE alive
  /\ CASE k = "logout"  -> Served(k, "ok", "clear")
       [] k = "mount"   -> Served(k, "ok", "keep")
       [] k = "regions" -> \E reply \in {"ok", "refused"} : Served(k, reply, "keep")
       [] k = "stray"   -> net' = Done(k)
       [] k = "jobs"    -> \E b \in BOOLEAN :
            net' = [net EXCEPT ![k].at = "answered", ![k].reply = "ok", ![k].live = b]
  /\ UNCHANGED <<made, cookie, tab, ghost>>

\* auth refuses: no cookie at all, or one whose session is gone, which it clears.
ServeGone(k) ==
  /\ k # "login" /\ net[k].at = "sent" /\ net[k].sess \notin alive
  /\ Served(k, "gone", IF net[k].sess = 0 THEN "keep" ELSE "clear")
  /\ UNCHANGED <<server, cookie, tab, ghost>>

\* Bug: a browser that has a cookie already is not sent the new one.
ServeLoginOnce ==
  /\ net["login"].at = "sent"
  /\ \/ /\ made < MaxLogins
        /\ made'  = made + 1
        /\ alive' = alive \cup {made + 1}
        /\ net'   = [net EXCEPT !["login"] = [@ EXCEPT !.at = "answered", !.reply = "ok", !.sess = made + 1,
                                               !.set = IF net["login"].sess = 0 THEN "new" ELSE "keep"]]
     \/ Served("login", "refused", "keep") /\ UNCHANGED server
  /\ UNCHANGED <<cookie, tab, ghost>>

\* handleCreateSession needs no session; an earlier one of the browser stays.
ServeLogin ==
  /\ net["login"].at = "sent"
  /\ \/ /\ made < MaxLogins
        /\ made'  = made + 1
        /\ alive' = alive \cup {made + 1}
        /\ net'   = [net EXCEPT !["login"] = [@ EXCEPT !.at = "answered", !.reply = "ok",
                                               !.sess = made + 1, !.set = "new"]]
     \/ Served("login", "refused", "keep") /\ UNCHANGED server
  /\ UNCHANGED <<cookie, tab, ghost>>

\* The reaper, the hard limit, a restart of the server.
SessionEnds ==
  /\ \E s \in alive : alive' = alive \ {s}
  /\ UNCHANGED <<made, cookie, tab, net, ghost>>

\* To the region query a lost answer is one more error, as aws_error is.
Lose(k) ==
  /\ ~Idle(k) /\ k \notin {"regions", "stray"} /\ net[k].reply # "lost" /\ faults < MaxFaults
  /\ faults' = faults + 1
  /\ Served(k, "lost", "keep")
  /\ UNCHANGED <<server, cookie, tab, hasty>>

(* ------------------------------- the provider ------------------------------ *)

\* The answer of k arrives; its Set-Cookie header is applied first.
Arrives(k) ==
  /\ net[k].at = "answered"
  /\ cookie' = CASE net[k].set = "new"   -> net[k].sess
                 [] net[k].set = "clear" -> 0
                 [] OTHER                -> cookie
  /\ UNCHANGED <<server, faults>>

Ok(k)   == net[k].reply = "ok"
Gone(k) == net[k].reply = "gone"

\* dropAccountQueries: the query leaves the cache, a fetch under way goes astray.
Dropped(n) ==
  IF n["regions"].at = "none" THEN n
  ELSE [n EXCEPT !["regions"] = NoRequest,
                 !["stray"] = IF n["regions"].at = "answered" /\ n["regions"].set = "keep"
                                THEN NoRequest ELSE [n["regions"] EXCEPT !.again = FALSE]]

\* JobsProvider lists on the change to "authed", unless a listing is under way.
SignedIn(s, n) ==
  /\ status' = "authed" /\ info' = s
  /\ net' = IF status = "authed" \/ n["jobs"].at # "none" THEN n
            ELSE [n EXCEPT !["jobs"] = Sent(cookie')]
  /\ UNCHANGED running

\* It forgets its list on the change to "anonymous".
SignedOut(n) ==
  /\ status' = "anonymous" /\ info' = 0
  /\ running' = IF status = "anonymous" THEN running ELSE 0
  /\ net' = n

\* WizardLayout sends an anonymous user to the form.
Landing(p, st) == IF p = "wizard" /\ st = "anonymous" THEN "outside" ELSE p

\* expire: the query is dropped with the identity.
Expire(n) ==
  /\ SignedOut(Dropped(n)) /\ regions' = 0
  /\ page' = Landing(page, "anonymous")
  /\ UNCHANGED hasty

\* The SessionProvider's own getSession; any failure shows the form.
MountArrives ==
  /\ Arrives("mount")
  /\ IF Ok("mount") THEN SignedIn(net["mount"].sess, Done("mount")) /\ UNCHANGED page
     ELSE SignedOut(Done("mount")) /\ page' = Landing(page, "anonymous")
  /\ UNCHANGED <<regions, hasty>>

\* Bug: login keeps the queries of the identity before.
LoginArrivesKeeping ==
  /\ Arrives("login")
  /\ IF Ok("login")
       THEN SignedIn(net["login"].sess, Done("login")) /\ page' = "wizard" /\ UNCHANGED regions
       ELSE net' = Done("login") /\ UNCHANGED tab
  /\ UNCHANGED hasty

\* login, then connect.tsx goes on to the wizard; on failure the form stays.
LoginArrives ==
  /\ Arrives("login")
  /\ IF Ok("login")
       THEN /\ SignedIn(net["login"].sess, Dropped(Done("login")))
            /\ regions' = 0 /\ page' = "wizard"
       ELSE net' = Done("login") /\ UNCHANGED tab
  /\ UNCHANGED hasty

\* logout takes every error for "already gone". The menu and the settings
\* then go to the landing page, the connect card stays.
LogoutArrives ==
  /\ Arrives("logout")
  /\ SignedOut(Dropped(Done("logout"))) /\ regions' = 0
  /\ page' = Landing(page, "anonymous")
  /\ UNCHANGED hasty

\* The region query: one retry, then the page's effect looks at the error.
RegionsArrive ==
  /\ Arrives("regions")
  /\ CASE Ok("regions") ->
            /\ regions' = net["regions"].sess /\ net' = Done("regions")
            /\ UNCHANGED <<status, info, page, running, hasty>>
       [] ~Ok("regions") /\ ~net["regions"].again ->
            /\ net' = [net EXCEPT !["regions"] = [Sent(cookie') EXCEPT !.again = TRUE]]
            /\ UNCHANGED <<tab, hasty>>
       [] OTHER ->
            IF Gone("regions") /\ page = "wizard" /\ status = "authed"
              THEN Expire(Done("regions"))
              ELSE net' = Done("regions") /\ UNCHANGED <<tab, hasty>>

StrayArrives ==
  /\ Arrives("stray")
  /\ net' = Done("stray")
  /\ UNCHANGED <<tab, hasty>>

\* Bug: a failed listing is ignored, whatever its cause.
JobsArriveIgnoring ==
  /\ Arrives("jobs")
  /\ IF Ok("jobs") THEN running' = (IF net["jobs"].live THEN net["jobs"].sess ELSE 0)
     ELSE UNCHANGED running
  /\ net' = Done("jobs")
  /\ UNCHANGED <<status, info, page, regions, hasty>>

\* refresh after api.jobs(): setRunning, or expire on a 401.
JobsArrive ==
  /\ Arrives("jobs")
  /\ CASE Ok("jobs") ->
            /\ running' = IF net["jobs"].live THEN net["jobs"].sess ELSE 0
            /\ net' = Done("jobs")
            /\ UNCHANGED <<status, info, page, regions, hasty>>
       [] Gone("jobs") -> Expire(Done("jobs"))
       [] OTHER -> net' = Done("jobs") /\ UNCHANGED <<tab, hasty>>

(* ------------------------------- the user's tab ---------------------------- *)

Asks(k, r) == Idle(k) /\ net' = [net EXCEPT ![k] = r]

Visit(p) ==
  /\ p # page /\ Landing(p, status) = p
  /\ page' = p
  /\ UNCHANGED <<server, cookie, status, info, regions, running, net, ghost>>

\* connect.tsx: the form is there unless the card of the signed-in account is.
Submit ==
  /\ page = "outside" /\ status # "authed" /\ made < MaxLogins
  /\ Asks("login", Sent(cookie))
  /\ hasty' = (hasty \/ status = "loading")
  /\ UNCHANGED <<server, cookie, tab, faults>>

\* The menu, the settings dialog and the connect card offer it when signed in.
SignOut ==
  /\ status = "authed"
  /\ Asks("logout", Sent(cookie))
  /\ UNCHANGED <<server, cookie, tab, ghost>>

\* useQuery of the regions page: on its first visit, when stale, or on "retry".
FetchRegions ==
  /\ page = "wizard" /\ status = "authed"
  /\ Asks("regions", Sent(cookie))
  /\ UNCHANGED <<server, cookie, tab, ghost>>

Refresh == status = "authed" /\ Asks("jobs", Sent(cookie))

\* The interval runs while the list is not empty.
Poll     == running # 0 /\ Refresh /\ UNCHANGED <<server, cookie, tab, ghost>>
ShowTab  == running = 0 /\ Refresh /\ UNCHANGED <<server, cookie, tab, ghost>>

\* A reload drops every answer that is under way and mounts the provider anew.
Reload ==
  /\ faults < MaxFaults /\ faults' = faults + 1
  /\ status' = "loading" /\ info' = 0 /\ regions' = 0 /\ running' = 0
  /\ hasty' = FALSE
  /\ net' = [k \in Kind |-> IF k = "mount" THEN Sent(cookie) ELSE NoRequest]
  /\ UNCHANGED <<server, cookie, page>>

-----------------------------------------------------------------------------
\* The first load finds no cookie, or one whose session may be gone.
Init ==
  /\ made \in {0, 1} \cap 0 .. MaxLogins
  /\ alive \in SUBSET (1 .. made)
  /\ cookie = made
  /\ status = "loading" /\ info = 0
  /\ page \in {"outside", "wizard"}
  /\ regions = 0 /\ running = 0
  /\ net = [k \in Kind |-> IF k = "mount" THEN Sent(cookie) ELSE NoRequest]
  /\ faults = 0 /\ hasty = FALSE

Next ==
  \/ \E k \in Kind : ServeSession(k) \/ ServeGone(k) \/ Lose(k)
  \/ ServeLogin \/ SessionEnds
  \/ MountArrives \/ LoginArrives \/ LogoutArrives \/ RegionsArrive
  \/ StrayArrives \/ JobsArrive
  \/ \E p \in {"outside", "wizard"} : Visit(p)
  \/ Submit \/ SignOut \/ FetchRegions \/ Poll \/ ShowTab \/ Reload

\* The server answers a listing, the answer arrives, and the interval fires.
\* Sign-ins, sign-outs and visits are the user's and get no fairness.
Fairness ==
  /\ WF_vars(ServeSession("jobs") \/ ServeGone("jobs"))
  /\ WF_vars(JobsArrive) /\ WF_vars(Poll)

Spec == Init /\ [][Next]_vars /\ Fairness

-----------------------------------------------------------------------------
TypeOK ==
  /\ made \in 0 .. MaxLogins
  /\ alive \subseteq 1 .. made
  /\ cookie \in 0 .. made
  /\ status \in {"loading", "anonymous", "authed"}
  /\ info \in 0 .. made
  /\ page \in {"outside", "wizard"}
  /\ regions \in 0 .. made /\ running \in 0 .. made
  /\ net \in [Kind -> Request]
  /\ faults \in 0 .. MaxFaults
  /\ hasty \in BOOLEAN

\* A tab that lists running jobs of a session that is gone, or not its own any
\* more, comes to see it: it ends up signed out, or with the jobs of its own
\* session (jobs.tsx:49-129, one refresh at a time shared by all callers).
PillsSettle ==
  (status = "authed" /\ running # 0 /\ (running # cookie \/ running \notin alive))
    ~> (status # "authed" \/ running = 0 \/ (running = cookie /\ running \in alive))

\* What session.tsx:58 and docs/security.md:104 say of signing out: the server
\* has dropped the session. The run shows otherwise, as every error is taken
\* for a session that is already gone.
SignedOutIsGone ==
  [][LogoutArrives => net["logout"].sess \notin alive]_vars
=============================================================================
