---------------------------- MODULE MCTargetPlan -----------------------------
\* 1: an executable that is asked for; 2: an ament package; 3: a library; 4: a
\* host library; 5: an app.
EXTENDS TargetPlan
cap == 9
MCKindOf == <<"executable", "ament", "library", "library", "app">>
MCHost == {4}
MCProvides == <<{}, {}, {cap}, {}, {}>>
MCNeeds == <<<<2, cap>>, <<3, 4>>, <<4>>, <<>>, <<>>>>
MCUses == {<<{2}, {3, 4}, {}, {}, {}>>, <<{2, 3}, {3, 4}, {4}, {}, {}>>}
MCAsked == {<<1, 5>>, <<3, 2>>, <<>>}

\* A host package that is an executable.
HostKindOf == <<"library", "executable">>
HostHost == {2}
HostProvides == <<{}, {}>>
HostNeeds == <<<<2>>, <<>>>>
HostUses == {<<{2}, {}>>}
HostAsked == {<<1>>}
=============================================================================
