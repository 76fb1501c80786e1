-------------------------------- MODULE Feed --------------------------------
(***************************************************************************)
(* What kings and lings are promised about the council's state: a copy of  *)
(* it that is always one the council really had, and that catches up when  *)
(* the council stops changing.  How it is transported is left open.        *)
(***************************************************************************)
EXTENDS Integers

CONSTANTS Watcher, MaxRevision

VARIABLES revision,     \* the council's State.Revision
          known         \* the revision each watcher holds, -1 before the first

feed == <<revision, known>>

FeedInit == revision = 0 /\ known = [w \in Watcher |-> -1]

Change == /\ revision < MaxRevision
          /\ revision' = revision + 1
          /\ UNCHANGED known

\* A watcher may fall back to an older revision, but never invents one.
Learn(w) == /\ \E r \in 0..revision : known' = [known EXCEPT ![w] = r]
            /\ UNCHANGED revision

CatchUp(w) == known' = [known EXCEPT ![w] = revision] /\ known[w] # revision
              /\ UNCHANGED revision

FeedNext == Change \/ \E w \in Watcher : Learn(w)

FeedSpec == FeedInit /\ [][FeedNext]_feed /\ \A w \in Watcher : WF_feed(CatchUp(w))
=============================================================================
