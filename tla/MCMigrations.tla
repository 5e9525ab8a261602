----------------------------- MODULE MCMigrations -----------------------------
(***************************************************************************)
(* The instance of Migrations for TLC: environments that are complete,     *)
(* lack a variable, or name a provider that there is not.                  *)
(***************************************************************************)
EXTENDS Migrations

MCEnvironments ==
    {[set |-> Required, provider |-> ""],
     [set |-> Required, provider |-> "openai"],
     [set |-> (Required \ {"JWT_SECRET"}) \cup {"AI_API_KEY"}, provider |-> "openai"]}
===============================================================================
