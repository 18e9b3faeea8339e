---------------------------- MODULE MCWorkspaces ----------------------------
(* A workspace directory, one inside it, one beside it, a protected one, and *)
(* the directory of trusted hooks.                                           *)
EXTENDS Workspaces

MCDirectories == {<<"w">>, <<"w", "sub">>, <<"m">>, <<"data">>, <<"hooks">>}
MCProtected == {<<"data">>}
MCScriptRoots == {<<"hooks">>}
MCRoots == {}
MCWorkspacePaths == MCDirectories \ {<<"m">>}
MCMountSources == {<<"w", "sub">>, <<"m">>}
MCConfigs ==
    {[mode |-> "disabled", managed |-> FALSE, sets |-> {"default"}],
     [mode |-> "optional", managed |-> TRUE, sets |-> {"default", "alt"}],
     [mode |-> "optional", managed |-> TRUE, sets |-> {"default"}],
     [mode |-> "required", managed |-> TRUE, sets |-> {"default", "alt"}]}
=============================================================================
