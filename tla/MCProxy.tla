------------------------------ MODULE MCProxy ------------------------------
EXTENDS Proxy, TLC

\* A veteran that runs blocks and binds a statement it has parsed before, under a
\* name the pool has for another; and a client that parses, and uses SQL.
Shared == "c" :> {<<"bind", "n">>, <<"begin", None>>, <<"end", None>>}
       @@ "d" :> {<<"sync", None>>, <<"sql", None>>, <<"parse", "m">>}

\* Prepared statements only.
SameName == "c" :> {<<"sync", None>>, <<"parse", "n">>, <<"bind", "n">>}
         @@ "d" :> {<<"parse", "n">>, <<"sync", None>>}

\* Enough to attach, to keep a block open, and to release.
Blocks == "c" :> {<<"begin", None>>, <<"end", None>>} @@ "d" :> {<<"end", None>>}
=============================================================================
