----------------------------- MODULE MCDictCache -----------------------------
(***************************************************************************)
(* Two processes over one cache directory and two source files.            *)
(***************************************************************************)
EXTENDS DictCache

CONSTANTS p1, p2, base, ext, t1, t2, t3

MCColumns == <<"text", "code", "weight">>

\* Codes n, "n i" and h; texts 21, 22 and 23.
N  == <<12>>
NI == <<12, 0, 13>>
H  == <<11>>

Header == <<<<<<Hash>>>>, Dashes, <<<<30>>>>, Dots>>

\* Two codes, one of them a prefix of the other, one text twice.
Plain   == Header \o << << <<21>>, N, <<5>> >>, << <<22>>, N, <<9>> >>,
                       << <<21>>, NI, <<4>> >>, << <<21>>, N, <<7>> >> >>
\* No weight, an unreadable weight after a zero for the same text, an empty line, a
\* negative weight; texts that Plain has too.
Sparse  == Header \o << << <<22>>, N, <<>> >>, << <<23>>, H, <<0>> >>,
                       << <<23>>, H, <<6, 6>> >>, << <<>> >>, << <<21>>, N, <<-6>> >> >>
\* The --- is the first line: the cache reads the header as lines.
Topped  == << Dashes, <<<<30>>>>, Dots, << <<22>>, NI, <<3>> >> >>

MCContents == {Plain, Sparse, Topped}

MCImportLists == {<<>>, <<t2>>, <<t3>>, <<t2, t3>>, <<t3, t2>>, <<t1>>, <<t3, t1>>}

MCSymmetry == Permutations(Processes)

==============================================================================
