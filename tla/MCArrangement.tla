---------------------------- MODULE MCArrangement ----------------------------
(* Small instances of Arrangement for TLC.                                      *)
EXTENDS Arrangement, TLC

Alone(kind) == Pane(<<kind>>)
FilesBesideViewer == Parts("row", <<1, 3>>, <<Alone("files"), Alone("viewer")>>)

\* builtins(): two of the five, the second the one a project opens with
TwoBuiltins ==
    << [id |-> <<"builtin:", 1>>, name |-> "two files",
        root |-> Parts("row", <<1, 1>>, <<Alone("files"), Alone("files")>>)],
       [id |-> <<"builtin:", 2>>, name |-> "files & viewer over terminal",
        root |-> Parts("column", <<7, 3>>, <<FilesBesideViewer, Alone("terminal")>>)] >>

OpenProject == <<"builtin:", 2>>

Only(pane, surface) == Leaf(pane, <<surface>>, surface)
HomeAlone == Only(1, <<"home", 1>>)
FilesAndTerminal == Split(1, "row", <<13, 7>>, <<Only(1, <<"files", 1>>), Only(2, <<"terminal", 1>>)>>)
ThreePanes ==
    Split(1, "column", <<7, 3>>,
          << Split(2, "row", <<1, 3>>, <<Only(1, <<"files", 1>>), Only(2, <<"viewer", 1>>)>>),
             Only(3, <<"terminal", 1>>) >>)

\* two names with one slug, and the name of a built-in
TypedNames == { [key |-> "a b", slug |-> "a-b"], [key |-> "a-b", slug |-> "a-b"],
                [key |-> "two files", slug |-> "two-files"] }

\* no file, and one edited by hand: an id and a name that are built-ins', and a
\* preset with a slot of an app this build does not have
EditedByHand ==
    << [id |-> <<"builtin:", 2>>, name |-> "mine", root |-> Alone("viewer")],
       [id |-> <<"theirs", 1>>, name |-> "two files", root |-> Alone("files")],
       [id |-> <<"newer", 1>>, name |-> "newer",
        root |-> Parts("column", <<1, 1>>, <<Alone("chat"), Alone("terminal")>>)] >>

\* a preset saved from two surfaces stacked in one pane
Stacking == << [id |-> <<"stack", 1>>, name |-> "stack",
                root |-> Parts("row", <<1, 1>>, <<Pane(<<"files", "viewer">>), Alone("terminal")>>)] >>

Start(n, lib, commands) == [tree |-> n, library |-> lib, ops |-> commands]

FewStarts == { Start(HomeAlone, <<>>, 3), Start(FilesAndTerminal, <<>>, 3),
               Start(ThreePanes, <<>>, 2), Start(FilesAndTerminal, EditedByHand, 2),
               Start(HomeAlone, Stacking, 2) }


\* to the edge, past it, and to a third
DragsOfTwo == {<<1, 0>>, <<-1, 3>>, <<1, 2>>}

=============================================================================
