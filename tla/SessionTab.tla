----------------------------- MODULE SessionTab -----------------------------
(***************************************************************************)
(* A browser tab and the session it acts for: the state that WebSession     *)
(* moves, and when what the tab shows is its own session's.                 *)
(***************************************************************************)
EXTENDS Naturals

VARIABLES
  made,     \* how many sessions the server has created
  alive,    \* the sessions the server still has
  cookie,   \* the browser's session cookie
  status,   \* SessionProvider: "loading", "anonymous" or "authed"
  info,     \*   and the session whose account it shows
  page,     \* "wizard": the regions page, for those under the wizard layout;
            \* "outside": the form and the pages it is a click away from
  regions,  \* the session the cached ["regions"] query was answered for
  running,  \* the session whose live jobs JobsProvider lists
  net,      \* the request of each kind that is under way
  faults,
  hasty     \* since the page load, the form was submitted before getSession answered

-----------------------------------------------------------------------------
\* The regions page never offers the regions another session was given: while
\* the tab is signed in with a cookie, the cached list was answered to the
\* session of that cookie (session.tsx:23-25).
RegionsOfSession ==
  status = "authed" /\ regions # 0 /\ cookie # 0 => regions = cookie

\* The account the tab shows, and asks the user to type before a clean-up, is
\* the account its requests act on, unless the user signed in before the answer
\* to the page load's getSession arrived (session.tsx:27-52).
AccountShown ==
  status = "authed" /\ cookie # 0 /\ ~hasty => info = cookie
=============================================================================
