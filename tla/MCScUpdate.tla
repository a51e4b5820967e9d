---------------------------- MODULE MCScUpdate ----------------------------
(* A small image for ScUpdate: a section of two packets, the second of     *)
(* them short, and a section that ends with its packet.                    *)
EXTENDS ScUpdate
TwoSections == <<3, 2>>
Addresses   == <<10, 20>>
=============================================================================
