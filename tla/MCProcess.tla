----------------------------- MODULE MCProcess -----------------------------
(***************************************************************************)
(* Values for the constants of Process that a configuration cannot write:  *)
(* a module of one page and one of two, an allocator that gives its lowest *)
(* page, and lists of modules: with names, without, with names that differ *)
(* only where they are cut off, and one that is too long, with a slash.    *)
(***************************************************************************)
EXTENDS Process

MCPick(S) == Min(S)
MCModulePages == [m \in Modules |-> IF m = "hello" THEN <<101>> ELSE <<102, 103>>]

MCPlaceholders == <<<<"h">>, <<"f">>, <<"d">>, <<"u">>>>
Named(m, s) == [image |-> m, named |-> TRUE, string |-> s]
Unnamed(m) == [image |-> m, named |-> FALSE, string |-> << >>]
MCModuleLists == {
    <<Named("hello", <<"h">>), Named("large", <<"l">>)>>,
    <<Unnamed("hello"), Unnamed("large")>>,
    <<Named("large", <<"h", "i", "x">>), Named("hello", <<"h", "i", "y">>)>>,
    <<Named("large", <<"/", "h">>), Unnamed("hello"), Named("large", <<"u">>)>>}
MCPaths == {<<"h">>, <<"/", "h">>, <<"l">>, <<"f">>, <<"h", "i">>, <<"u">>}

=============================================================================
