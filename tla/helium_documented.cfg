\* A program whose registers end with other values than the documents give them.
SPECIFICATION PromiseSpec
CONSTANT Programs <- Documented
INVARIANTS EndsAsDocumented
