--------------------------- MODULE MCEditBuffer ---------------------------
EXTENDS EditBuffer

OneText == {<<97, Newline, 98>>}
TypedChars == {98}
=============================================================================
