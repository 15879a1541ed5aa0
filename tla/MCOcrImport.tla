----------------------------- MODULE MCOcrImport -----------------------------
(***************************************************************************)
(* Instances of OcrImport for TLC.                                         *)
(***************************************************************************)
EXTENDS OcrImport

CONSTANTS t1, t2, v1, v2

-----------------------------------------------------------------------------
\* A photo and a plain image, or a set whose second image is no image; the service
\* finds a draft on an image, complete or not, or none.
OneImage  == {<<"photo">>}
TwoImages == {<<"photo", "plain">>, <<"plain", "broken">>}

AnyDraft == {<<>>, <<v1>>, <<Blank>>}
OneDraft == {<<>>, <<Blank>>}

=============================================================================
