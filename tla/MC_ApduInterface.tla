-------------------------- MODULE MC_ApduInterface --------------------------
EXTENDS ApduInterface

\* 90 00, 61 10 (more data), 62 83 (completed, warning), 6A 82 (not found).
MCSelectSWs == {<<144, 0>>, <<97, 16>>, <<98, 131>>, <<106, 130>>}
MCSelectOk == {<<144, 0>>}
=============================================================================
