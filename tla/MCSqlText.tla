------------------------------- MODULE MCSqlText -------------------------------
(***************************************************************************)
(* The characters that are typed together: those that one of the scanners  *)
(* may read otherwise than another, in the dialects in which it may.       *)
(***************************************************************************)
EXTENDS SqlText

Typing(dialect, characters, length) ==
    [dialect |-> dialect, begins |-> <<>>, characters |-> characters, length |-> length, edits |-> FALSE, parses |-> FALSE]

TypingAfter(begins, dialect, characters, length) ==
    [Typing(dialect, characters, length) EXCEPT !.begins = begins]

MCProfiles ==
    {\* strings, with escapes and without, and what is between dollars
     Typing("postgresql", {"e", "'", "\\", ";"}, 6),
     Typing("postgresql", {"$", "a", "1", ";"}, 5),
     TypingAfter(<<"$", "a", "$">>, "postgresql", {"$", "a", ";"}, 6),
     Typing("mysql", {"'", "\\", "bt", ";", "\"", "n"}, 5),
     Typing("sqlite", {"'", "\\", ";", "bt", "$"}, 5),
     Typing("sqlserver", {"[", "]", "n", "'", "#", ";"}, 5),
     \* comments, operators that look like them, numbers, names with a sigil
     Typing("postgresql", {"/", "*", "-", "\n", ";", "'"}, 5),
     Typing("postgresql", {"-", ">", "#", "<", "="}, 4),
     Typing("clickhouse", {"@", "a", "bt", "#", ";", "-"}, 4),
     Typing("sqlserver", {"@", "a", "#", ";"}, 4),
     Typing("postgresql", {"1", "e", ".", "+", "a"}, 5),
     \* lines and keywords
     Typing("sqlite", {"\t", " ", "\n", "a", "'"}, 5),
     Typing("sqlite", {"select", " ", "\"", "1", "GROUP", "BY"}, 4),
     Typing("sqlite", {"AND", "SELECT", "a", " ", "\n"}, 4),
     Typing("sqlite", {"cross", "CROSS", "JOIN", " ", "select"}, 4),
     TypingAfter(<<"SELECT", "\n">>, "sqlite", {"SELECT", ",", "\t", "\n"}, 6),
     \* keywords in quotes
     TypingAfter(<<"'", "GROUP">>, "mysql", {"BY", " ", "'"}, 5),
     Typing("mysql", {"DROP", "bt", "GROUP", " "}, 4),
     Typing("sqlserver", {"ADD", "HASH", "DROP", "[", "]"}, 4),
     \* calls and statements
     Typing("postgresql", {"a", "(", ",", ")", " "}, 5),
     Typing("postgresql", {"SELECT", "DROP", "a", ";", "\n"}, 4),
     TypingAfter(<<"a", ";", "\n">>, "postgresql", {"SELECT", "DROP", ";", "\n"}, 7),
     \* letters of several bytes: in names and tags, before words, calls and statements
     TypingAfter(<<"$", "wide2", "tail", "$">>, "postgresql", {"wide2", "$", ";"}, 9),
     TypingAfter(<<"wide4", "low", "tail", "tail">>, "sqlite", {"wide2", "'", "a", " ", "\n"}, 8),
     TypingAfter(<<"wide2", "tail", ";">>, "mysql", {"a", "(", ",", " "}, 7),
     Typing("mysql", {"select", "wide2", " "}, 6),
     TypingAfter(<<"select", "+", "wide2", "tail">>, "mysql", {"select", "+", " ", ";"}, 7),
     \* edits, and calls with a dialect and without
     [Typing("postgresql", {"a", "\n"}, 4) EXCEPT !.edits = TRUE],
     [Typing("postgresql", {"wide2", "\n"}, 4) EXCEPT !.edits = TRUE],
     [Typing("sqlserver", {"[", "a", "]"}, 3) EXCEPT !.parses = TRUE]}
=============================================================================
