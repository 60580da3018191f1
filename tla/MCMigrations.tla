---------------------------- MODULE MCMigrations ----------------------------
EXTENDS MigrationProperties, TLC

CONSTANTS d1, d2

MCDatabase == {d1, d2}
MCOutOfBand == {<<"statement_response", "UPDATE">>, <<"user_credential", "SELECT">>}
MCOffended == {"ck_scan_job_modules_not_empty", EmailIndex, "uq_domain_verification_value"}

(* One thing at a time is out of the ordinary: a grant, a membership, or    *)
(* the rows of one database, for one constraint.                            *)
Spread(of) == Cardinality(UNION {{d} \X of[d] : d \in Database})

OneOddity == Spread(public) + Spread(unfit) + Cardinality(member) <= 1

Symmetry == Permutations(MCDatabase)
=============================================================================
