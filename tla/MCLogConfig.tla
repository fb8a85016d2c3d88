---------------------------- MODULE MCLogConfig ----------------------------
(* Small instances of LogConfig for TLC.                                   *)
EXTENDS LogConfig, TLC

CONSTANTS t1, root, first, second, out, file, none

PlainPattern == <<"%", "m">>
DatePattern  == <<"%", "d", "{", ".", "}", "%", "m">>
OpenPattern  == <<"%", "d", "{", ".">>

SomePatterns == {PlainPattern, DatePattern, OpenPattern}
SomeFormats  == {<<>>, <<".">>, <<"%", "{", "m">>}

App(d, l, p) == [dest |-> d, level |-> l, formatter |-> p]
Of(n, l, p, list) == [name |-> n, level |-> l, formatter |-> p, appenders |-> list]

(* One entry, changed in its appenders only, or in its level with root in  *)
(* the list too; root alone; an invalid pattern; a name twice; entries and *)
(* appenders that are left out; appenders with a level; nothing.           *)
SomeDocuments == {
    <<>>,
    <<Of(first, 2, DatePattern, <<App(out, 1, DatePattern), App(file, 0, OpenPattern)>>)>>,
    <<Of(first, 2, DatePattern, <<App(file, 2, none)>>)>>,
    <<Of(first, 1, none, <<App(file, 0, DatePattern)>>), Of(root, 2, OpenPattern, <<App(out, 0, none)>>), Of(first, 2, none, <<>>)>>,
    <<Of(none, 1, none, <<>>), Of(root, 2, OpenPattern, <<App(none, 1, none), App(out, 2, none)>>)>> }
=============================================================================
