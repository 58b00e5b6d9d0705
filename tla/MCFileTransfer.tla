--------------------------- MODULE MCFileTransfer ---------------------------
(* Small instances of FileTransfer: blocks of two bytes, files of up to    *)
(* three blocks, so that a file may end before, on and after a boundary.   *)
EXTENDS FileTransfer

AllSizes   == 0..6
LooseSizes == 0..5
BlockSizes == {2, 4}
=============================================================================
