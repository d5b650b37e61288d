------------------------------- MODULE MCGithub -------------------------------
(* Instances of GithubSource for TLC. *)
EXTENDS GithubSource
AllDatasets == <<"repositories", "events", "repo_details">>
=============================================================================
