----------------------------- MODULE MCEncoding -----------------------------
EXTENDS Encoding

\* At and around what a byte can hold.
MCDisplacements == {-2056, -129, -128, -8, 0, 127, 128}
MCImmediates == {-16, 0, 3, 255, 69632}
MCIndices == {NoIndex, rdi, rbp}
MCFollowers == {<<"ret", 0, 0>>, <<"push", 0, rbp>>, <<"moveRegister", rsp, rbp>>,
                <<"compare32", 3, rdi>>, <<"setEqual", 0, rdi>>}
=============================================================================
