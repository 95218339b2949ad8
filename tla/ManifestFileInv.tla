-------------------------- MODULE ManifestFileInv --------------------------
(***************************************************************************)
(* The inductive invariant of ManifestFile: what went through Counting,    *)
(* with what is left of the current write_all, is always the start of the  *)
(* whole file.                                                             *)
(***************************************************************************)
EXTENDS ManifestFile

Cell == {"byte", "number"} \X Nat \X Nat

Size == [len : Lens, raw : RawLens]

TypeOK ==
    /\ pc \in {"frames", "trailer", "flush", "ok", "failed", "damaged"}
    /\ version \in Nat
    /\ sizes \in Seq(Size)
    /\ pending \in Seq(Cell) /\ out \in Seq(Cell) /\ disk \in Seq(Cell)
    /\ len \in Nat

\* The frames of sizes, one after the other.
Frames == FlattenSeq([k \in DOMAIN sizes |-> Frame(k, sizes[k])])

\* The index has an entry for each part, and the index itself is the last frame.
IndexInv ==
    /\ entries = [k \in DOMAIN entries |-> Entry(k)]
    /\ Len(entries) \in Nat /\ DOMAIN entries = 1 .. Len(entries)
    /\ pc = "frames" => Len(sizes) = Len(entries)
    /\ pc = "failed" => Len(sizes) \in {Len(entries), Len(entries) + 1}
    /\ pc \notin {"frames", "failed"} => Len(sizes) = Len(entries) + 1

\* One cell is another number than was written.
OneCellDiffers ==
    /\ DOMAIN disk = DOMAIN out
    /\ \E i \in DOMAIN out :
          /\ disk[i] # out[i] /\ disk[i] = Number(Value(disk[i]))
          /\ \A j \in DOMAIN out \ {i} : disk[j] = out[j]

StreamInv ==
    /\ len = Len(out)
    /\ pc \in {"frames", "trailer"} => out \o pending = Frames
    /\ pc \in {"flush", "ok", "damaged"} => out \o pending = WholeFile
    /\ pc \in {"ok", "damaged", "failed"} => pending = <<>>
    /\ pc \in {"frames", "trailer", "flush"} => disk = <<>>
    /\ pc = "ok" => disk = out
    /\ pc = "damaged" => OneCellDiffers
    /\ pc = "failed" => \E n \in 0 .. Len(WholeFile) : disk = SubSeq(WholeFile, 1, n)

IInv == TypeOK /\ IndexInv /\ StreamInv
=============================================================================
