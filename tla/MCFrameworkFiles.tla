-------------------------- MODULE MCFrameworkFiles --------------------------
(* Instance of FrameworkFiles. *)
EXTENDS FrameworkFiles, TLC

MCDir == {"d1"}
MCApps == {{"claude", "factory"}}
MCEdited == {<<"claude", "home">>, <<"claude", "d1">>, <<"factory", "home">>, <<"codex", "home">>}
Limit(claims, uninstalls, refreshes, edits, texts, fails) ==
    [claim |-> claims, uninstall |-> uninstalls, refresh |-> refreshes,
     edit |-> edits, text |-> texts, fail |-> fails]
MCLimits ==
    {Limit(2, 1, 1, 0, 0, 0), Limit(2, 0, 0, 1, 0, 0), Limit(1, 0, 0, 2, 0, 0),
     Limit(1, 0, 3, 0, 2, 0), Limit(1, 1, 2, 0, 1, 0),
     Limit(2, 0, 1, 0, 0, 1), Limit(1, 1, 1, 1, 0, 1)}
MCSymmetry == Permutations(Agent)
=============================================================================
