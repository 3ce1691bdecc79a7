------------------------------ MODULE MCBridge ------------------------------
(* An update, the attachment of an imported image, and a read.              *)
EXTENDS Bridge

CONSTANTS hello, update, attach, read, c1, c2

MCNeeds == [q \in Mutations |-> IF q = attach THEN {c1, c2} ELSE {c1}]
MCMethodNeeds == [q \in Mutations |-> c1]
MCWorkloads == {{update, read}, {attach}, {update, attach}}
=============================================================================
