---------------------------- MODULE MCGithubTeam ----------------------------
(***************************************************************************)
(* Values of the constants of GithubTeam for TLC.                          *)
(***************************************************************************)
EXTENDS GithubTeam, TLC

CONSTANTS a, b, c

Plain   == NoMeta
WithTTL == [NoMeta EXCEPT !.ttl = TerminalStates]
DryMeta == [NoMeta EXCEPT !.dryRun = "true"]

\* Every label and the spec vary, one at a time, around the plain object.
VariedMetas ==
  { Plain, DryMeta,
    [NoMeta EXCEPT !.dryRun = "false", !.ttl = TerminalStates],
    [NoMeta EXCEPT !.addUser = FALSE],
    [NoMeta EXCEPT !.removeUser = FALSE],
    [NoMeta EXCEPT !.spec = "unmanaged"],
    [NoMeta EXCEPT !.force = TRUE],
    [NoMeta EXCEPT !.spec = "invalid"] }

TTLMetas == {WithTTL}
=============================================================================
