---------------------------- MODULE MCActorCache ----------------------------
(***************************************************************************)
(* ActorCache with two keys besides the empty one, and lists that begin    *)
(* and end inside and outside of the keys, with and without a limit.       *)
(***************************************************************************)
EXTENDS ActorCache, TLC

NoLimit == 3

MCLists == {<<0, 2, NoLimit, FALSE>>, <<1, 3, NoLimit, FALSE>>,
            <<0, 3, 1, FALSE>>, <<0, 2, NoLimit, TRUE>>,
            <<0, 3, 1, TRUE>>}

Symmetry == Permutations(Reads)

(* Nothing is said of what follows a step that exposes the cache.          *)
NotExposed == ~exposed

(* What follows shutdown() or running out of memory is explored for a      *)
(* cache on which at most two operations were called.                      *)
TerminalEarly == maybeTerminalException => calls <= 2
=============================================================================
