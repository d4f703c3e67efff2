------------------------ MODULE MCCompactConversion ------------------------
EXTENDS CallGraph
MCFlowKeys == {<<"a", 1>>, <<"a", 2>>, <<"b", 1>>}
MCAsyncKeys == {<<"a", 1>>, <<"a", 2>>}
MCMenus == {{"slice"}, {"flow"}, {"async"}, {"slice", "sync"}}
=============================================================================
