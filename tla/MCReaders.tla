----------------------------- MODULE MCReaders -----------------------------
(* Readers over a few names that begin alike, are dots or are no text.     *)
EXTENDS Readers

SomeEntries ==
    {[name |-> <<3>>, type |-> "link"],
     [name |-> <<2, 4, 8>>, type |-> "other"],
     [name |-> <<2, 4, 9>>, type |-> "directory"]}

SomeNames == {<<3>>, <<2, 4, 5>>, <<2, 4, 8>>, <<2, 4>>}

SomeTargets == {<<"a">>, <<"a", "b", "c">>, <<"a", BadUnit>>}

Absolute(units) == [tag |-> "symlink", relative |-> FALSE, units |-> units, printed |-> <<"p">>]

SomeReparse ==
    {Absolute(NtPrefix \o <<"X", ":", Sep, "a">>),
     Absolute(NtPrefix \o <<"X", ":", Sep, "a", ".">>),
     Absolute(NtPrefix \o <<"X", ":", Sep, ".", Sep, "a", "a", "a">>),
     Absolute(NtPrefix \o Unc \o <<"s">>),
     Absolute(NtPrefix \o Unc \o <<"s", ".">>),
     Absolute(NtPrefix \o <<"V", "{", "}", Sep>>),
     Absolute(NtPrefix \o <<"X", ":", Sep, BadUnit>>),
     [tag |-> "symlink", relative |-> TRUE, units |-> <<"a", Sep, "b", ".">>, printed |-> <<>>],
     [tag |-> "mount", relative |-> FALSE, units |-> NtPrefix \o <<"X", ":", Sep, "b">>,
      printed |-> <<>>],
     [tag |-> "other", relative |-> FALSE, units |-> <<"a">>, printed |-> <<>>]}
=============================================================================
