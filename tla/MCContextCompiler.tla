--------------------------- MODULE MCContextCompiler ---------------------------
\* Files in the order of their paths: 1 and 2 share a directory, 3 is at the root, 4 is
\* a test and 5 is so deep that its headers use up a budget of 64 tokens.
EXTENDS ContextCompiler, TLC

Symbol(name, file, line, identity, mentions, relevance, header, body) ==
    [name |-> name, file |-> file, line |-> line, identity |-> identity,
     mentions |-> mentions, relevance |-> relevance, header |-> header, body |-> body]

MCSymbols ==
    { Symbol("refresh", 1, 1, {"refresh", "auth"}, {"token"}, 10, 40, 60),
      Symbol("helper", 1, 9, {"helper", "auth"}, {"refresh", "token"}, 9, 40, 60),
      Symbol("validate", 1, 30, {"validate", "auth"}, {}, 6, 40, 180),
      Symbol("session", 2, 1, {"session", "user"}, {"refresh"}, 9, 40, 60),
      Symbol("redirect", 3, 5, {"redirect", "main"}, {"refresh", "token"}, 9, 30, 50),
      Symbol("redirect", 3, 50, {"redirect", "main"}, {}, 4, 30, 0),
      Symbol("test_session", 4, 1, {"test", "session"}, {"refresh"}, 7, 44, 2000),
      Symbol("page", 5, 1, {"page", "deep"}, {"token"}, 8, 224, 2000),
      Symbol("view", 5, 70, {"view", "deep"}, {}, 2, 300, 40) }

MCDirectory == <<"src", "src", "main", "tests", "web">>

MCCallersOf ==
    [name \in {symbol.name : symbol \in MCSymbols} |->
        CASE name = "refresh" -> {<<"session", 2>>, <<"test_session", 4>>, <<"refresh", 1>>}
          [] name = "validate" -> {<<"refresh", 1>>, <<"helper", 1>>}
          [] name = "redirect" -> {<<"page", 5>>, <<"outside", 6>>}
          [] name = "session" -> {<<"redirect", 3>>, <<"validate", 1>>}
          [] OTHER -> {}]
================================================================================
