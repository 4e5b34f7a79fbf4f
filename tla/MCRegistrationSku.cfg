SPECIFICATION Spec
CONSTANTS
    s1 = s1
    s2 = s2
    b1 = b1
    b2 = b2
    Handlers = {h1, h2}
    Keys = {k1, k2}
    Skus = {s1}
    Bodies = {b1}
    SkuOf <- MCSkuOfOne
    Products = {p1, p2}
    NoProduct = NoProduct
    NoSku = NoSku
    MaxFailures = 1
    Faults = FALSE
INVARIANT OneProductPerSku
