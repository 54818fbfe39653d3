------------------------------ MODULE MCEvidence ------------------------------
\* Criteria that match a file and its test, tests without a file, and everything; no
\* context, one with both test files, and one with a test among its files.
EXTENDS Evidence, TLC

CONSTANTS session, redirect, expiry, t1, t2, f1, f2
MCMatchFiles == (session :> {f1}) @@ (redirect :> {}) @@ (expiry :> {f1, f2})
MCMatchTests == (session :> {t1}) @@ (redirect :> {t1, t2}) @@ (expiry :> {t1, t2})
MCContexts ==
    { [tests |-> {f1, f2}, files |-> {}], [tests |-> {}, files |-> {f1, f2}] }
MCRoots ==
    { {}, {"pytest.ini"}, {"pyproject", "pytest.ini", "[tool.ruff"},
      {"pyproject", "tests/", "mypy.ini", "make test", "make check"},
      {"npm test", "npm typecheck", "npm lint", "npm build"},
      {"pyproject", "ruff.toml", "cargo", "npm test"} }
\* A suite and a linter; one suite twice.
MCConfigs == { << >>, <<"pytest", "ruff">>, <<"pytest", "python -m pytest">> }
=============================================================================
